---- MODULE Spec2Model ----
(***************************************************************************)
(* A state-machine model of node-zerox's document pipeline                 *)
(* (src/node-zerox/src/index.ts, `zerox`) and of the parts of the provider *)
(* adapters the pipeline's contract depends on.                            *)
(*                                                                         *)
(* One invocation of zerox is modelled step by step: every `await` of the  *)
(* source is a suspension point and therefore the end of an action; the    *)
(* synchronous code between two awaits is one atomic action, as it is on   *)
(* the single-threaded event loop.  Per-page OCR tasks and extraction      *)
(* tasks are promises that progress independently of the main flow and go  *)
(* on running after zerox has settled.                                     *)
(*                                                                         *)
(* A second invocation that shares the tempDir root is modelled by its     *)
(* file-system footprint (SpecPeer).                                       *)
(***************************************************************************)
EXTENDS Integers, Sequences, FiniteSets, TLC

\* ---------------------------------------------------------------- bounds
MaxPages == 2      \* pages (rasterized images, or sheets) of the input document
MaxConcurrency == 2 \* largest `concurrency` argument explored
MaxRetries == 1    \* largest `maxRetries` argument explored
MaxRand == 2       \* number of distinct values Math.random() can yield for the temp name
MaxBlank == 1      \* pages 1 .. MaxBlank of the document may be blank
MaxSelection == 2  \* longest pagesToConvertAsImages array explored
MaxTokens == 1     \* largest llmParams.maxTokens explored (0 .. MaxTokens)
MaxCalls == 2      \* getCompletion calls followed on one adapter instance

\* ------------------------------------------------------- program constants
THROW == "THROW"
IGNORE == "IGNORE"
SUCCESS == "SUCCESS"
ERROR == "ERROR"

VARIABLES
  args,            \* the ZeroxArgs bundle of this invocation (never assigned after Init)
  pc,              \* position of the main async function
  pending,         \* completion the finally block will deliver: "none" | "return" | "throw"
  error,           \* what zerox rejects with ("none" while not thrown)
  output,          \* the ZeroxOutput the invocation resolves with, or NoOutput
  directImageExtraction, \* the local of that name (reassigned at line 128)
  scheduler,       \* "null" | "active" | "terminated"
  tempDirectory,   \* 0 for null, else the random suffix of zerox-temp-<rand>
  dirs,            \* temp directories that exist on disk under the tempDir root
  imagePaths,      \* sequence of image paths
  pages,           \* the `pages` array (a JS array: unset slots are Hole)
  ocr,             \* per page: the processOCR task [pc, attempt, request, page]
  priorPage,       \* closure variable read by every OCR request
  inputTokenCount,
  outputTokenCount,
  numSuccessfulOCRRequests,
  numFailedOCRRequests,
  ext,             \* per extraction task (0 = full document): [pc, attempt]
  numSuccessfulExtractionRequests,
  numFailedExtractionRequests,
  extracted,       \* NullExtracted or the merged object
  llmIn,           \* history: sum of input tokens of the successful LLM calls
  llmOut,          \* history: sum of output tokens of the successful LLM calls
  slotWrites,      \* history: per pages slot, how many times an OCR task wrote it
  pagesToConvertAsImages, \* the local of that name (sorted, then normalized)
  conversions,     \* history: the conversion tools that were run, in order
  peer,            \* the concurrent invocation: [pc, dir]
  adapter          \* a provider adapter instance (OpenAIModel or GoogleModel),
                   \* its configuration, the module-level SYSTEM_PROMPT_BASE
                   \* and the request it sent last

vars == << args, pc, pending, error, output, directImageExtraction, scheduler,
           tempDirectory, dirs, imagePaths, pages, ocr, priorPage,
           inputTokenCount, outputTokenCount, numSuccessfulOCRRequests,
           numFailedOCRRequests, ext, numSuccessfulExtractionRequests,
           numFailedExtractionRequests, extracted, llmIn, llmOut,
           slotWrites, pagesToConvertAsImages, conversions, peer, adapter >>

\* Everything but the adapter instance.
zeroxVars == << args, pc, pending, error, output, directImageExtraction,
                scheduler, tempDirectory, dirs, imagePaths, pages, ocr,
                priorPage, inputTokenCount, outputTokenCount,
                numSuccessfulOCRRequests, numFailedOCRRequests, ext,
                numSuccessfulExtractionRequests, numFailedExtractionRequests,
                extracted, llmIn, llmOut, slotWrites, pagesToConvertAsImages,
                conversions, peer >>

srcVars == << imagePaths, pagesToConvertAsImages, conversions >>

ocrVars == << ocr, priorPage, numSuccessfulOCRRequests, numFailedOCRRequests,
              slotWrites >>
tokenVars == << inputTokenCount, outputTokenCount, llmIn, llmOut >>
extVars == << ext, numSuccessfulExtractionRequests, numFailedExtractionRequests,
              extracted >>
resVars == << scheduler, tempDirectory, dirs >>
flowVars == << pc, pending, error, output >>

PageIds == 1 .. MaxPages
NoOutput == [kind |-> "none"]
Hole == [status |-> "HOLE"]

\* ------------------------------------------------------------------ inputs
\* splitSchema(schema, extractPerPage) yields a per-page part, a full-document
\* part, both, or (no schema) nothing: `schema` names which.
SchemaKinds == {"none", "perPage", "fullDoc", "both"}

\* The extension downloadFile reports (".docx" stands for every other
\* non-structured extension, ".xlsx" for the structured data files).
ImageExtensions == {".png", ".jpg", ".jpeg"}
Extensions == ImageExtensions \cup {".heic", ".pdf", ".docx", ".xlsx"}

\* pagesToConvertAsImages: -1 (all pages), a page number, or an array of page
\* numbers; the numbers explored run from 0 to one past the last page.
AllPages == [kind |-> "all", value |-> << >>]
PageNumbers == 0 .. MaxPages + 1
PageSelections ==
  {AllPages}
    \cup { [kind |-> "scalar", value |-> << n >>] : n \in PageNumbers }
    \cup { [kind |-> "array", value |-> v] :
             v \in UNION { [1 .. l -> PageNumbers] : l \in 0 .. MaxSelection } }

\* What the extraction model finds in the document: on each page the per-page
\* property is absent, null or a value; the full-document property is a
\* scalar or an array; and the full-document answer may carry the per-page
\* property as well (as a scalar or an array).
ExtractionAnswers ==
  [ perPage : [1 .. MaxPages -> {"absent", "null", "value"}],
    fullDoc : {"scalar", "array"},
    extra : {"none", "scalar", "array"} ]

PlainAnswers ==
  [perPage |-> [n \in 1 .. MaxPages |-> "value"], fullDoc |-> "scalar",
   extra |-> "none"]

\* The arguments the pipeline's control flow reads.
BaseArgs ==
  [ maintainFormat : BOOLEAN,
    errorMode : {THROW, IGNORE},
    cleanup : BOOLEAN,
    correctOrientation : BOOLEAN,
    concurrency : 1 .. MaxConcurrency,
    maxRetries : 0 .. MaxRetries,
    numPages : 1 .. MaxPages,
    schema : SchemaKinds,
    directImageExtraction : BOOLEAN,
    enableHybridExtraction : BOOLEAN,
    extractOnly : BOOLEAN,
    structured : BOOLEAN,
    credentialsEmpty : BOOLEAN,
    openaiAPIKey : BOOLEAN,
    filePathEmpty : BOOLEAN ]

\* What the source file is and which of its pages are asked for.
SourceArgs ==
  [ extension : Extensions,
    isCFBFile : BOOLEAN,
    pagesToConvertAsImages : PageSelections,
    answers : ExtractionAnswers ]

HasPerPageSchema(a) == a.schema \in {"perPage", "both"}
HasFullDocSchema(a) == a.schema \in {"fullDoc", "both"}

\* Lines 96-99 and 108: a legacy openaiAPIKey replaces the credentials; the
\* validator throws when every credential is empty.
CredentialsUnchecked(a) == FALSE
MissingCredentials(a) == a.credentialsEmpty /\ ~a.openaiAPIKey

\* Line 111: !filePath || !filePath.length.
MissingFilePath(a) == a.filePathEmpty

\* Line 114: hybrid extraction excludes direct image extraction and extractOnly.
ModeConflictWithDirectOnly(a) == a.enableHybridExtraction /\ a.directImageExtraction
ModeConflict(a) ==
  a.enableHybridExtraction /\ (a.directImageExtraction \/ a.extractOnly)

\* The validators of lines 107-126, in source order: the error thrown, or "none".
ValidationError(a) ==
  IF MissingCredentials(a) THEN "Missing credentials"
  ELSE IF MissingFilePath(a) THEN "Missing file path"
  ELSE IF ModeConflict(a)
    THEN "Hybrid extraction cannot be used in direct image extraction or extract-only mode"
  ELSE IF a.enableHybridExtraction /\ a.schema = "none"
    THEN "Schema is required when hybrid extraction is enabled"
  ELSE IF a.extractOnly /\ a.schema = "none"
    THEN "Schema is required for extraction mode"
  ELSE IF a.extractOnly /\ a.maintainFormat
    THEN "Maintain format is only supported in OCR mode"
  ELSE "none"

NoPrompt == [present |-> FALSE, text |-> << >>]
NoRequest == [sent |-> FALSE, priorPage |-> << >>, consistency |-> NoPrompt]
IdleTask ==
  [pc |-> "idle", attempt |-> 0, request |-> NoRequest, page |-> Hole,
   error |-> "none"]
NoInput == [kind |-> "none", imagePaths |-> << >>, text |-> << >>]

\* JSON values of the extraction results: absent, null, a scalar, or an array
\* whose items are bare values or {page, value} entries.
Bare(v) == [wrapped |-> FALSE, page |-> 0, value |-> v]
Wrapped(n, v) == [wrapped |-> TRUE, page |-> n, value |-> v]
Absent == [kind |-> "absent", items |-> << >>]
Null == [kind |-> "null", items |-> << >>]
Scalar(v) == [kind |-> "scalar", items |-> << Bare(v) >>]
Array(items) == [kind |-> "array", items |-> items]

\* The top-level properties of the schema: one extracted per page
\* (extractPerPage), one from the full document.
PerPageKey == "lineItems"
FullDocKey == "invoiceNumber"
Keys == {PerPageKey, FullDocKey}
EmptyObject == [key \in Keys |-> Absent]

NullExtracted == [isNull |-> TRUE, value |-> EmptyObject]
Extracted(object) == [isNull |-> FALSE, value |-> object]

IdleExtraction ==
  [pc |-> "idle", attempt |-> 0, exhausted |-> FALSE, input |-> NoInput,
   result |-> EmptyObject]

InitLocals(a) ==
  /\ args = a
  /\ pc = "validate"
  /\ pending = "none"
  /\ error = "none"
  /\ output = NoOutput
  /\ directImageExtraction = a.directImageExtraction
  /\ scheduler = "null"
  /\ tempDirectory = 0
  /\ dirs = {}
  /\ imagePaths = << >>
  /\ pages = << >>
  /\ ocr = [i \in PageIds |-> IdleTask]
  /\ priorPage = << >>
  /\ inputTokenCount = 0
  /\ outputTokenCount = 0
  /\ numSuccessfulOCRRequests = 0
  /\ numFailedOCRRequests = 0
  /\ ext = [t \in 0 .. MaxPages |-> IdleExtraction]
  /\ numSuccessfulExtractionRequests = 0
  /\ numFailedExtractionRequests = 0
  /\ extracted = NullExtracted
  /\ llmIn = 0
  /\ llmOut = 0
  /\ slotWrites = [i \in PageIds |-> 0]
  /\ pagesToConvertAsImages = a.pagesToConvertAsImages
  /\ conversions = << >>
  /\ peer = [pc |-> "idle", dir |-> 0]

\* The pipeline is followed with the adapter instance left aside.
NoAdapter == [provider |-> "none"]

InitState(a) == InitLocals(a) /\ adapter = NoAdapter

\* concurrency is read only by the concurrent OCR driver (line 389) and
\* errorMode only by processOCR's catch block (line 359).  Bundles that differ
\* only in an argument the run never reads behave alike: one of them is kept.
\* A legacy openaiAPIKey is read only before validation (lines 96-99): a
\* bundle with it runs as the bundle with the credentials it stands for.
\* isStructuredDataFile(localPath) goes by the extension; an image is a
\* one-page document; checkIsCFBFile is called on the PDF route only.
Canonical(a) ==
  /\ ~a.openaiAPIKey
  /\ a.structured <=> a.extension = ".xlsx"
  /\ a.extension \in ImageExtensions \cup {".heic"} => a.numPages = 1
  /\ a.extension \notin {".pdf", ".docx"} => ~a.isCFBFile
  /\ (a.structured \/ a.extractOnly \/ a.maintainFormat) => a.concurrency = 1
  /\ (a.structured \/ a.extractOnly) => a.errorMode = IGNORE

\* The pipeline from a PDF, all pages converted (pagesToConvertAsImages at
\* its default), or from a workbook.
PdfOrWorkbook(a) ==
  /\ a.extension \in {".pdf", ".xlsx"} /\ ~a.isCFBFile
  /\ a.pagesToConvertAsImages = AllPages
  /\ a.answers = PlainAnswers

DefaultSources == {x \in SourceArgs : PdfOrWorkbook(x)}

\* An argument bundle is a record with the fields of BaseArgs and SourceArgs.
Init ==
  \E x \in DefaultSources : \E b \in BaseArgs :
     Canonical(b @@ x) /\ InitState(b @@ x)

\* ------------------------------------------------------- control transfer
\* An exception inside the try block (line 148): control passes to the finally
\* block, which re-throws when it completes.
Throw(e) ==
  /\ pc' = "finally"
  /\ pending' = "throw"
  /\ error' = e
  /\ output' = output

Goto(l) ==
  /\ pc' = l
  /\ UNCHANGED << pending, error, output >>

\* ------------------------------------------- validation and the scheduler
\* Lines 95-128.  A validator's throw precedes the try block: zerox rejects at
\* once and the finally block does not run.
ValidateRejects ==
  /\ pc = "validate"
  /\ ValidationError(args) # "none"
  /\ pc' = "rejected"
  /\ error' = ValidationError(args)
  /\ UNCHANGED << args, adapter, pending, output, directImageExtraction, resVars,
                  srcVars, pages, ocrVars, tokenVars, extVars, peer >>

\* Line 128: if (extractOnly) directImageExtraction = true.
DirectAsGiven(a, direct) == direct
ImpliedDirect(a, direct) == a.extractOnly \/ direct

ValidateAccepts ==
  /\ pc = "validate"
  /\ ValidationError(args) = "none"
  /\ directImageExtraction' = ImpliedDirect(args, directImageExtraction)
  /\ Goto(IF args.correctOrientation THEN "getScheduler" ELSE "mkTemp")
  /\ UNCHANGED << args, adapter, resVars, srcVars, pages, ocrVars, tokenVars,
                  extVars, peer >>

\* Line 136: scheduler = await getTesseractScheduler().
GetScheduler ==
  /\ pc = "getScheduler"
  /\ scheduler' = "active"
  /\ Goto("addWorkers")
  /\ UNCHANGED << args, adapter, directImageExtraction, tempDirectory, dirs, srcVars,
                  pages, ocrVars, tokenVars, extVars, peer >>

\* Lines 137-145: await addWorkersToTesseractScheduler(...) resolves.
AddWorkersOk ==
  /\ pc = "addWorkers"
  /\ Goto("mkTemp")
  /\ UNCHANGED << args, adapter, directImageExtraction, resVars, srcVars, pages,
                  ocrVars, tokenVars, extVars, peer >>

\* Lines 141-144: the awaited promise rejects (a worker cannot be created).
\* The await is outside the try block, so zerox rejects without the finally.
AddWorkersFails ==
  /\ pc = "addWorkers"
  /\ pc' = "rejected"
  /\ error' = "TesseractError"
  /\ UNCHANGED << args, adapter, pending, output, directImageExtraction, resVars,
                  srcVars, pages, ocrVars, tokenVars, extVars, peer >>

\* ------------------------------------------- temp directory and the source
RandValues == 1 .. MaxRand

\* Lines 150-157: tempDirectory = <root>/zerox-temp-<rand>; await ensureDir.
\* ensureDir succeeds whether or not the directory already exists.
MkTemp ==
  /\ pc = "mkTemp"
  /\ \E rand \in RandValues :
       /\ tempDirectory' = rand
       /\ dirs' = dirs \cup {rand}
  /\ Goto("download")
  /\ UNCHANGED << args, adapter, directImageExtraction, scheduler, srcVars, pages,
                  ocrVars, tokenVars, extVars, peer >>

RECURSIVE Insert(_, _)
Insert(x, s) ==
  IF s = << >> THEN << x >>
  ELSE IF x <= Head(s) THEN << x >> \o s
  ELSE << Head(s) >> \o Insert(x, Tail(s))

RECURSIVE SortAsc(_)
\* Array.prototype.sort((a, b) => a - b).
SortAsc(s) == IF s = << >> THEN << >> ELSE Insert(Head(s), SortAsc(Tail(s)))

\* Lines 171-173: an array of page numbers is sorted in place.
SortSelection(sel) ==
  IF sel.kind = "array" THEN [sel EXCEPT !.value = SortAsc(@)] ELSE sel

\* Lines 212-219: a page number becomes a one-element array, and the entries
\* outside 1 .. totalPages are filtered out.
NormalizeSelection(sel, totalPages) ==
  LET InRange(page) == page > 0 /\ page <= totalPages
  IN [kind |-> "array", value |-> SelectSeq(sel.value, InRange)]

\* Lines 161-173: downloadFile resolves with a local path; the page selection
\* is sorted.
DownloadOk ==
  /\ pc = "download"
  /\ tempDirectory \in dirs
  /\ pagesToConvertAsImages' = SortSelection(pagesToConvertAsImages)
  /\ Goto("fileType")
  /\ UNCHANGED << args, adapter, directImageExtraction, resVars, imagePaths, conversions,
                  pages, ocrVars, tokenVars, extVars, peer >>

\* Lines 161-167: downloadFile rejects, or yields no local path.
DownloadFails ==
  /\ pc = "download"
  /\ Throw("AcquisitionError")
  /\ UNCHANGED << args, adapter, directImageExtraction, resVars, srcVars, pages,
                  ocrVars, tokenVars, extVars, peer >>

\* What is printed on page n of the document.
PageText == [n \in PageIds |-> <<"p1", "p2", "p3", "p4", "p5">>[n]]

\* A sheet of a workbook as a page (extractPagesFromStructuredDataFile).
SheetPage(i) ==
  [page |-> i, status |-> SUCCESS, content |-> << PageText[i] >>, contentLength |-> 1,
   hasError |-> FALSE, error |-> << >>]

\* Lines 178-182: a structured data file: its sheets become the pages; no
\* rasterization and no OCR.
ReadStructured ==
  /\ pc = "fileType"
  /\ args.structured
  /\ pages' = [i \in 1 .. args.numPages |-> SheetPage(i)]
  /\ Goto("extract")
  /\ UNCHANGED << args, adapter, directImageExtraction, resVars, srcVars, ocrVars,
                  tokenVars, extVars, peer >>

\* An image path: the image of page n of the document, where the image comes
\* from ("pdf2pic", or LocalFile / HeicJpeg below), and whether it is the
\* recompressed copy.
ImagePath(i, compressed) ==
  [n |-> i, compressed |-> compressed, origin |-> "convertPdfToImages"]
LocalFile == [n |-> 1, compressed |-> FALSE, origin |-> "localPath"]
HeicJpeg == [n |-> 1, compressed |-> FALSE, origin |-> "convertHeicToJpeg"]

\* Lines 186-193: a .png, .jpg or .jpeg file is the one image, as it is.
UseImageFile ==
  /\ pc = "fileType"
  /\ ~args.structured
  /\ args.extension \in ImageExtensions
  /\ imagePaths' = << LocalFile >>
  /\ Goto("compress")
  /\ UNCHANGED << args, adapter, directImageExtraction, resVars, pagesToConvertAsImages,
                  conversions, pages, ocrVars, tokenVars, extVars, peer >>

\* Lines 193-200: a .heic file is converted to one JPEG.
ConvertHeicOk ==
  /\ pc = "fileType"
  /\ ~args.structured
  /\ args.extension = ".heic"
  /\ tempDirectory \in dirs
  /\ conversions' = Append(conversions, "convertHeicToJpeg")
  /\ imagePaths' = << HeicJpeg >>
  /\ Goto("compress")
  /\ UNCHANGED << args, adapter, directImageExtraction, resVars, pagesToConvertAsImages,
                  pages, ocrVars, tokenVars, extVars, peer >>

\* Line 204: a standard PDF is used as it is; anything else is converted.
IsPdfByExtension(extension, isCFBFile) == extension = ".pdf"
IsStandardPdf(extension, isCFBFile) == extension = ".pdf" /\ ~isCFBFile

\* Lines 211, 222: with pagesToConvertAsImages = -1 the page count is not asked.
AfterPdf(sel) == IF sel = AllPages THEN "toImages" ELSE "countPages"

\* Lines 202-207: await checkIsCFBFile(localPath) resolves; the route is chosen.
CheckCFB ==
  /\ pc = "fileType"
  /\ ~args.structured
  /\ args.extension \notin ImageExtensions \cup {".heic"}
  /\ tempDirectory \in dirs
  /\ Goto(IF IsStandardPdf(args.extension, args.isCFBFile)
            THEN AfterPdf(pagesToConvertAsImages) ELSE "toPdf")
  /\ UNCHANGED << args, adapter, directImageExtraction, resVars, srcVars, pages,
                  ocrVars, tokenVars, extVars, peer >>

\* Lines 207-215: await convertFileToPdf(...) resolves.
ConvertToPdfOk ==
  /\ pc = "toPdf"
  /\ tempDirectory \in dirs
  /\ conversions' = Append(conversions, "convertFileToPdf")
  /\ Goto(AfterPdf(pagesToConvertAsImages))
  /\ UNCHANGED << args, adapter, directImageExtraction, resVars, imagePaths,
                  pagesToConvertAsImages, pages, ocrVars, tokenVars, extVars,
                  peer >>

\* Lines 211-221: await getNumberOfPagesFromPdf resolves; the selection is
\* normalized against the page count.
CountPages ==
  /\ pc = "countPages"
  /\ tempDirectory \in dirs
  /\ pagesToConvertAsImages' = NormalizeSelection(pagesToConvertAsImages, args.numPages)
  /\ Goto("toImages")
  /\ UNCHANGED << args, adapter, directImageExtraction, resVars, imagePaths, conversions,
                  pages, ocrVars, tokenVars, extVars, peer >>

\* convertPdfToImages: one image per selected page, in the order given (all
\* pages in page order for -1).
PdfImages(sel, totalPages) ==
  IF sel = AllPages THEN [i \in 1 .. totalPages |-> ImagePath(i, FALSE)]
  ELSE [i \in 1 .. Len(sel.value) |-> ImagePath(sel.value[i], FALSE)]

\* Lines 225-232: await convertPdfToImages(...) resolves.
RasterizeOk ==
  /\ pc = "toImages"
  /\ tempDirectory \in dirs
  /\ conversions' = Append(conversions, "convertPdfToImages")
  /\ imagePaths' = PdfImages(pagesToConvertAsImages, args.numPages)
  /\ Goto("compress")
  /\ UNCHANGED << args, adapter, directImageExtraction, resVars, pagesToConvertAsImages,
                  pages, ocrVars, tokenVars, extVars, peer >>

\* Lines 195-232: a conversion (HEIC, office to PDF, page count, PDF to
\* images) or the compound-file check rejects.
RasterizeFails ==
  /\ \/ pc = "fileType" /\ ~args.structured /\ args.extension \notin ImageExtensions
     \/ pc \in {"toPdf", "countPages", "toImages"}
  /\ Throw("ConversionError")
  /\ UNCHANGED << args, adapter, directImageExtraction, resVars, srcVars, pages,
                  ocrVars, tokenVars, extVars, peer >>

\* Lines 240-262: every image is recompressed into <name>_compressed.png and
\* the path list is replaced (maxImageSize defaults to 15).
CompressOk ==
  /\ pc = "compress"
  /\ tempDirectory \in dirs
  /\ imagePaths' = [i \in 1 .. Len(imagePaths) |->
                      [imagePaths[i] EXCEPT !.compressed = TRUE]]
  /\ Goto(IF args.correctOrientation THEN "prepareWorkers" ELSE "ocr")
  /\ UNCHANGED << args, adapter, directImageExtraction, resVars, pagesToConvertAsImages,
                  conversions, pages, ocrVars, tokenVars, extVars, peer >>

\* Lines 242-260: reading, compressing or writing one image rejects.
CompressFails ==
  /\ pc = "compress"
  /\ Throw("CompressionError")
  /\ UNCHANGED << args, adapter, directImageExtraction, resVars, srcVars, pages,
                  ocrVars, tokenVars, extVars, peer >>

\* Lines 264-272: await prepareWorkersForImageProcessing(...).
PrepareWorkersOk ==
  /\ pc = "prepareWorkers"
  /\ Goto("ocr")
  /\ UNCHANGED << args, adapter, directImageExtraction, resVars, srcVars, pages,
                  ocrVars, tokenVars, extVars, peer >>

PrepareWorkersFails ==
  /\ pc = "prepareWorkers"
  /\ Throw("TesseractError")
  /\ UNCHANGED << args, adapter, directImageExtraction, resVars, srcVars, pages,
                  ocrVars, tokenVars, extVars, peer >>

\* ------------------------------------------------ the provider and adapters
\* What the vision model may answer for the image of page n: the page's markdown
\* wrapped in a code fence or, for a blank page, nothing at all (the adapters
\* turn a missing text into "").
\* The fence delimiters (three backquotes, bare or followed by markdown / html).
Fences == {"fence-markdown", "fence-html", "fence"}
RawAnswers(n) ==
  { << "fence-markdown", PageText[n], "fence" >> }
    \cup (IF n <= MaxBlank THEN { << >> } ELSE {})

\* Token usage the provider reports for a successful call (page 0: the
\* full-document extraction).
OcrUsage(n) == [inputTokens |-> n, outputTokens |-> 1]
ExtractionUsage(n) == [inputTokens |-> n + 1, outputTokens |-> 2]

NotFence(x) == x \notin Fences

\* CompletionProcessor.process(OperationMode.OCR, raw): code fences stripped,
\* contentLength counted, token counts passed through.
ProcessOCR(raw) ==
  [content |-> SelectSeq(raw.content, NotFence),
   contentLength |-> Len(SelectSeq(raw.content, NotFence)),
   inputTokens |-> raw.inputTokens,
   outputTokens |-> raw.outputTokens]

CONSISTENCY_PROMPT(prior) == << "Markdown must maintain consistent formatting with the following page:" >> \o prior

\* handleOCR of the adapters: the consistency prompt is added to the request
\* if (maintainFormat && priorPage && priorPage.length).
ConsistencyPart(maintainFormat, prior) ==
  IF maintainFormat /\ Len(prior) > 0
    THEN [present |-> TRUE, text |-> CONSISTENCY_PROMPT(prior)]
    ELSE NoPrompt

\* The OCR-mode request of an attempt, as getCompletion is called at lines
\* 319-324: priorPage is read when the attempt is made, and the adapter builds
\* the request from it.
OCRRequest(maintainFormat, prior) ==
  [sent |-> TRUE, priorPage |-> prior,
   consistency |-> ConsistencyPart(maintainFormat, prior)]

\* ----------------------------------------------------------- OCR: helpers
NumImages == Len(imagePaths)

\* inputTokenCount += response.inputTokens (lines 343-344, 460-461, 558-559).
TokenAddLost(count, n) == n
TokenAdd(count, n) == count + n

\* priorPage = response.content (lines 346-348).
KeepPriorPage(prior, response) == prior
NextPriorPage(prior, response) == response.content

\* Lines 350-354: the response spread into the page; it has no error field
\* (hasError tells whether the field is present, error is its text).
SuccessPage(i, response) ==
  [page |-> i, status |-> SUCCESS, content |-> response.content,
   contentLength |-> response.contentLength, hasError |-> FALSE,
   error |-> << >>]

\* Line 366: the template string of the error field.
PageName == [n \in PageIds |-> <<"1", "2", "3", "4", "5">>[n]]
ErrorText(i, e) == << "Failed to process page ", PageName[i], ": ", e >>

\* Lines 363-369.
ErrorPageUnfilled(i) ==
  [page |-> i, status |-> ERROR, content |-> << "partial" >>, contentLength |-> 1,
   hasError |-> FALSE, error |-> << >>]
ErrorPage(i) ==
  [page |-> i, status |-> ERROR, content |-> << >>, contentLength |-> 0,
   hasError |-> TRUE, error |-> ErrorText(i, "OcrError")]

\* Line 359: the catch block re-throws under errorMode THROW.
OcrCatchAlwaysRethrows(mode) == TRUE
OcrCatchRethrows(mode) == mode = THROW

\* JS `arr[i - 1] = v` on an array of any length (unset slots are holes).
SetSlot(arr, i, v) ==
  [j \in 1 .. (IF i > Len(arr) THEN i ELSE Len(arr)) |->
     IF j = i THEN v ELSE IF j <= Len(arr) THEN arr[j] ELSE Hole]

\* Line 394: pages[i] = page: the slot a concurrent task writes is the index
\* of its image in imagePaths.
NextFreeSlot(arr, i) == Len(arr) + 1
StoreSlot(arr, i) == i

\* Lines 382-385: the sequential loop stops at the first ERROR page.
SeqNeverHalts(page) == FALSE
SeqHalts(page) == page.status = ERROR

\* A runner that grants one attempt more than maxRetries + 1.
OneMoreRetry(failures, maxRetries) == failures <= maxRetries + 1

\* runRetries(operation, maxRetries, tag): after `failures` failed attempts
\* (the one just made included) the operation is invoked again.
RetriesLeft(failures, maxRetries) == failures <= maxRetries

Queued(o) == {j \in PageIds : o[j].pc = "queued"}
Lowest(S) == CHOOSE j \in S : \A k \in S : j <= k

\* A limiter that never takes a task off its queue.
StartNone(o) == o

\* p-limit: when a limited function settles, the oldest queued one is started;
\* processOCR then runs up to its first await (fs.readFile, line 290).
StartNext(o) ==
  IF Queued(o) = {} THEN o ELSE [o EXCEPT ![Lowest(Queued(o))].pc = "read"]

InFlight(o) == {j \in PageIds : o[j].pc \in {"read", "clean", "call"}}
Settled(o) == {j \in PageIds : o[j].pc \in {"done", "rejected"}}

\* ------------------------------------------------------ OCR: the two drivers
\* Lines 282, 401-403: extractOnly skips the OCR stage.
SkipOCR ==
  /\ pc = "ocr"
  /\ args.extractOnly
  /\ Goto("extract")
  /\ UNCHANGED << args, adapter, directImageExtraction, resVars, srcVars, pages,
                  ocrVars, tokenVars, extVars, peer >>

\* Lines 376-380: the sequential loop calls processOCR for the first image and
\* awaits it.
StartOCRSequential ==
  /\ pc = "ocr"
  /\ ~args.extractOnly
  /\ args.maintainFormat
  /\ ocr' = IF NumImages = 0 THEN ocr ELSE [ocr EXCEPT ![1].pc = "read"]
  /\ Goto(IF NumImages = 0 THEN "extract" ELSE "awaitOCR")
  /\ UNCHANGED << args, adapter, directImageExtraction, resVars, srcVars, pages,
                  priorPage, numSuccessfulOCRRequests, numFailedOCRRequests,
                  slotWrites, tokenVars, extVars, peer >>

\* Lines 388-398: one limited task per image; p-limit starts the first
\* `concurrency` of them and queues the rest; zerox awaits Promise.all.
StartOCRConcurrent ==
  /\ pc = "ocr"
  /\ ~args.extractOnly
  /\ ~args.maintainFormat
  /\ ocr' = [i \in PageIds |->
               IF i > NumImages THEN ocr[i]
               ELSE IF i <= args.concurrency THEN [ocr[i] EXCEPT !.pc = "read"]
               ELSE [ocr[i] EXCEPT !.pc = "queued"]]
  /\ Goto(IF NumImages = 0 THEN "extract" ELSE "awaitOCR")
  /\ UNCHANGED << args, adapter, directImageExtraction, resVars, srcVars, pages,
                  priorPage, numSuccessfulOCRRequests, numFailedOCRRequests,
                  slotWrites, tokenVars, extVars, peer >>

\* A processOCR call that has settled: its locals are gone; what is left is
\* the page it resolved with or the error it rejected with.
Finished(how, page, e) ==
  [pc |-> how, attempt |-> 0, request |-> NoRequest, page |-> page, error |-> e]

\* processOCR(imagePaths[i], i, ...) rejects with e.  Under p-limit the next
\* queued task is started; the awaiting driver (the loop's await, or
\* Promise.all at its first rejection) throws inside the try block.
RejectTask(i, e) ==
  /\ ocr' = StartNext([ocr EXCEPT ![i] = Finished("rejected", Hole, e)])
  /\ IF pc = "awaitOCR" THEN Throw(e) ELSE UNCHANGED flowVars
  /\ UNCHANGED << pages, slotWrites >>

\* processOCR(imagePaths[i], i, ...) resolves with `page`.
\*   concurrent (lines 393-395): the .then callback stores the page, p-limit
\*     starts the next queued task, and Promise.all resolves once every task
\*     has resolved;
\*   sequential (lines 380-385): the page is pushed and the loop goes on to
\*     the next image unless the page is an ERROR page.
ResolveTask(i, page) ==
  IF args.maintainFormat
    THEN /\ pages' = Append(pages, page)
         /\ slotWrites' = [slotWrites EXCEPT ![Len(pages) + 1] = @ + 1]
         /\ IF SeqHalts(page) \/ i = NumImages
              THEN /\ ocr' = [ocr EXCEPT ![i] = Finished("done", page, "none")]
                   /\ Goto("extract")
              ELSE /\ ocr' = [ocr EXCEPT ![i] = Finished("done", page, "none"),
                                         ![i + 1].pc = "read"]
                   /\ UNCHANGED flowVars
    ELSE /\ pages' = SetSlot(pages, StoreSlot(pages, i), page)
         /\ slotWrites' = [slotWrites EXCEPT ![StoreSlot(pages, i)] = @ + 1]
         /\ ocr' = StartNext([ocr EXCEPT ![i] = Finished("done", page, "none")])
         /\ IF pc = "awaitOCR" /\ \A j \in 1 .. NumImages : ocr'[j].pc = "done"
              THEN Goto("extract")
              ELSE UNCHANGED flowVars

\* ------------------------------------------------------ OCR: processOCR(i)
\* Line 290: await fs.readFile(imagePath) resolves; the image is in the
\* invocation's temp directory.
OCRReadOk(i) ==
  /\ ocr[i].pc = "read"
  /\ tempDirectory \in dirs
  /\ ocr' = [ocr EXCEPT ![i].pc = "clean"]
  /\ UNCHANGED << args, adapter, flowVars, directImageExtraction, resVars, srcVars,
                  pages, priorPage, numSuccessfulOCRRequests,
                  numFailedOCRRequests, slotWrites, tokenVars,
                  extVars, peer >>

\* Line 290: the read rejects (ENOENT): the directory has been removed.
OCRReadFails(i) ==
  /\ ocr[i].pc = "read"
  /\ tempDirectory \notin dirs
  /\ RejectTask(i, "ReadError")
  /\ UNCHANGED << args, adapter, directImageExtraction, resVars, srcVars, priorPage,
                  numSuccessfulOCRRequests, numFailedOCRRequests,
                  tokenVars, extVars, peer >>

\* Lines 292-328: cleanupImage resolves; inside the try block runRetries makes
\* the first attempt, and the adapter sends the request.
OCRCleanOk(i) ==
  /\ ocr[i].pc = "clean"
  /\ ocr' = [ocr EXCEPT ![i].pc = "call", ![i].attempt = 0,
                        ![i].request = OCRRequest(args.maintainFormat, priorPage)]
  /\ UNCHANGED << args, adapter, flowVars, directImageExtraction, resVars, srcVars,
                  pages, priorPage, numSuccessfulOCRRequests,
                  numFailedOCRRequests, slotWrites, tokenVars, extVars, peer >>

\* cleanupImage as if it were called inside processOCR's try block under
\* errorMode IGNORE: its failure becomes an ERROR page.
OCRCleanInsideTry(i) ==
  /\ ocr[i].pc = "clean"
  /\ numFailedOCRRequests' = numFailedOCRRequests + 1
  /\ ResolveTask(i, ErrorPage(i))
  /\ UNCHANGED << args, adapter, directImageExtraction, resVars, srcVars, priorPage,
                  numSuccessfulOCRRequests, tokenVars, extVars, peer >>

\* Lines 292-297: cleanupImage rejects; the call is outside processOCR's try
\* block, so processOCR rejects whatever errorMode is.
OCRCleanFails(i) ==
  /\ ocr[i].pc = "clean"
  /\ RejectTask(i, "CleanupError")
  /\ UNCHANGED << args, adapter, directImageExtraction, resVars, srcVars, priorPage,
                  numSuccessfulOCRRequests, numFailedOCRRequests,
                  tokenVars, extVars, peer >>

\* The provider call rejects and runRetries has a retry left: the operation
\* (lines 318-324) is invoked again.
OCRCallRetry(i) ==
  /\ ocr[i].pc = "call"
  /\ RetriesLeft(ocr[i].attempt + 1, args.maxRetries)
  /\ ocr' = [ocr EXCEPT ![i].attempt = @ + 1,
                        ![i].request = OCRRequest(args.maintainFormat, priorPage)]
  /\ UNCHANGED << args, adapter, flowVars, directImageExtraction, resVars, srcVars,
                  pages, priorPage, numSuccessfulOCRRequests,
                  numFailedOCRRequests, slotWrites, tokenVars, extVars, peer >>

\* The provider call rejects with no retry left, and the catch block
\* (lines 357-361) re-throws: processOCR rejects with the OCR error.
OCRCallExhaustedThrow(i) ==
  /\ ocr[i].pc = "call"
  /\ ~RetriesLeft(ocr[i].attempt + 1, args.maxRetries)
  /\ OcrCatchRethrows(args.errorMode)
  /\ RejectTask(i, "OcrError")
  /\ UNCHANGED << args, adapter, directImageExtraction, resVars, srcVars, priorPage,
                  numSuccessfulOCRRequests, numFailedOCRRequests,
                  tokenVars, extVars, peer >>

\* The provider call rejects with no retry left, and the catch block
\* (lines 363-373) makes an ERROR page: processOCR resolves with it.
OCRCallExhaustedIgnore(i) ==
  /\ ocr[i].pc = "call"
  /\ ~RetriesLeft(ocr[i].attempt + 1, args.maxRetries)
  /\ ~OcrCatchRethrows(args.errorMode)
  /\ numFailedOCRRequests' = numFailedOCRRequests + 1
  /\ ResolveTask(i, ErrorPage(i))
  /\ UNCHANGED << args, adapter, directImageExtraction, resVars, srcVars, priorPage,
                  numSuccessfulOCRRequests, tokenVars, extVars, peer >>

\* Lines 329-356, 373: the provider call resolves.  The response is
\* normalized, the token counters and priorPage are updated, and processOCR
\* resolves with a SUCCESS page.
OCRCallOk(i) ==
  /\ ocr[i].pc = "call"
  /\ \E answer \in RawAnswers(imagePaths[i].n) :
       LET usage == OcrUsage(imagePaths[i].n)
           response == ProcessOCR([content |-> answer,
                                   inputTokens |-> usage.inputTokens,
                                   outputTokens |-> usage.outputTokens])
       IN /\ llmIn' = llmIn + usage.inputTokens
          /\ llmOut' = llmOut + usage.outputTokens
          /\ inputTokenCount' = TokenAdd(inputTokenCount, response.inputTokens)
          /\ outputTokenCount' = TokenAdd(outputTokenCount, response.outputTokens)
          /\ priorPage' = NextPriorPage(priorPage, response)
          /\ numSuccessfulOCRRequests' = numSuccessfulOCRRequests + 1
          /\ ResolveTask(i, SuccessPage(i, response))
  /\ UNCHANGED << args, adapter, directImageExtraction, resVars, srcVars,
                  numFailedOCRRequests, extVars, peer >>

\* ------------------------------------------------- extraction: the inputs
\* pages[index] of a JS array: undefined past the end and in a hole.
Defined(arr, i) == i <= Len(arr) /\ arr[i] # Hole

RECURSIVE Join(_, _)
\* pages.map((page, i) => i === 0 ? page.content : "\n<hr><hr>\n" + page.content).join("")
\* over the pages from index i on (lines 515-525).
Join(arr, i) ==
  IF i > Len(arr) THEN << >>
  ELSE IF arr[i] = Hole THEN Join(arr, i + 1)
  ELSE (IF i = 1 THEN << >> ELSE << "<hr><hr>" >>) \o arr[i].content \o Join(arr, i + 1)

TextInput(t) == [kind |-> "text", imagePaths |-> << >>, text |-> t]
ImagesInput(ps) == [kind |-> "images", imagePaths |-> ps, text |-> << >>]
HybridInput(ps, t) == [kind |-> "hybrid", imagePaths |-> ps, text |-> t]

UseImages == directImageExtraction /\ ~args.structured

\* Lines 490-498: the number of per-page inputs.
NumPerPageInputs ==
  IF UseImages \/ args.enableHybridExtraction THEN Len(imagePaths) ELSE Len(pages)

\* Lines 494-497: pages[index].content of a page that is not there is a
\* TypeError, thrown while the inputs are built.
PerPageInputsThrow ==
  /\ ~UseImages
  /\ args.enableHybridExtraction
  /\ \E i \in 1 .. Len(imagePaths) : ~Defined(pages, i)

\* Lines 490-498: the input of the per-page task for index i.
PerPageInput(i) ==
  IF UseImages THEN ImagesInput(<< imagePaths[i] >>)
  ELSE IF args.enableHybridExtraction
    THEN HybridInput(<< imagePaths[i] >>, pages[i].content)
  ELSE TextInput(IF pages[i] = Hole THEN << >> ELSE pages[i].content)

\* Lines 509-525: the input of the full-document task.
FullDocInput ==
  IF UseImages THEN ImagesInput(imagePaths)
  ELSE IF args.enableHybridExtraction THEN HybridInput(imagePaths, Join(pages, 1))
  ELSE TextInput(Join(pages, 1))

\* The extraction tasks created at lines 488-575: 1 .. n per page, 0 for the
\* full document.
ExtractionTasks ==
  (IF HasPerPageSchema(args) THEN 1 .. NumPerPageInputs ELSE {})
    \cup (IF HasFullDocSchema(args) THEN {0} ELSE {})

\* ------------------------------------------------ extraction: the results
ItemText == [n \in PageIds |-> <<"item1", "item2", "item3", "item4", "item5">>[n]]

\* response.extracted of the per-page call for page n.
PerPageAnswer(n) ==
  [key \in Keys |->
     IF key # PerPageKey \/ args.answers.perPage[n] = "absent" THEN Absent
     ELSE IF args.answers.perPage[n] = "null" THEN Null
     ELSE Scalar(ItemText[n])]

AnswerValue(kind, v) ==
  IF kind = "scalar" THEN Scalar(v)
  ELSE IF kind = "array" THEN Array(<< Bare(v), Bare("more") >>)
  ELSE Absent

\* response.extracted of the full-document call.
FullDocAnswer ==
  [key \in Keys |->
     IF key = FullDocKey THEN AnswerValue(args.answers.fullDoc, "INV-1")
     ELSE AnswerValue(args.answers.extra, "stray")]

\* Lines 466-474: for each property of the per-page schema, a value that is
\* neither null nor undefined becomes the list [{page, value}].
PerPageResult(answer, pageNumber) ==
  [key \in Keys |->
     IF key = PerPageKey /\ answer[key].kind \notin {"absent", "null"}
       THEN Array(<< Wrapped(pageNumber, answer[key].items[1].value) >>)
       ELSE Absent]

\* Line 561: result = response.extracted.
FullDocResult(answer) == answer

\* Lines 580-587: one entry of a result merged into the accumulator: a
\* missing (falsy) acc[key] becomes [], an array value is pushed element by
\* element, any other value is assigned.
MergeValue(prev, v) ==
  IF v = Absent THEN prev
  ELSE IF v.kind = "array"
    THEN Array((IF prev.kind \in {"absent", "null"} THEN << >> ELSE prev.items)
                 \o v.items)
  ELSE v

MergeInto(acc, result) == [key \in Keys |-> MergeValue(acc[key], result[key])]

\* The tasks in the order they were pushed: per page, then the full document.
TaskOrder(tasks) ==
  [i \in 1 .. Cardinality(tasks \ {0}) |-> i]
    \o (IF 0 \in tasks THEN << 0 >> ELSE << >>)

RECURSIVE Reduce(_, _, _)
Reduce(e2, order, acc) ==
  IF order = << >> THEN acc
  ELSE Reduce(e2, Tail(order), MergeInto(acc, e2[Head(order)].result))

\* Lines 578-590: results.reduce(..., {}).
MergeResults(e2) == Reduce(e2, TaskOrder(ExtractionTasks), EmptyObject)

\* ------------------------------------------------- extraction: the driver
\* Lines 410, 592-594: no schema, no extraction.
NoExtraction ==
  /\ pc = "extract"
  /\ args.schema = "none"
  /\ Goto("finish")
  /\ UNCHANGED << args, adapter, directImageExtraction, resVars, srcVars, pages,
                  ocrVars, tokenVars, extVars, peer >>

\* Lines 488-498: building the per-page inputs throws.
BuildExtractionThrows ==
  /\ pc = "extract"
  /\ args.schema # "none"
  /\ HasPerPageSchema(args)
  /\ PerPageInputsThrow
  /\ Throw("TypeError")
  /\ UNCHANGED << args, adapter, directImageExtraction, resVars, srcVars, pages,
                  ocrVars, tokenVars, extVars, peer >>

\* Lines 488-577: every extraction task is created and makes its first
\* attempt at once (no limiter); zerox awaits Promise.all of them.
StartExtraction ==
  /\ pc = "extract"
  /\ args.schema # "none"
  /\ ~(HasPerPageSchema(args) /\ PerPageInputsThrow)
  /\ ExtractionTasks # {}
  /\ ext' = [t \in 0 .. MaxPages |->
               IF t \notin ExtractionTasks THEN ext[t]
               ELSE [pc |-> "call", attempt |-> 0, exhausted |-> FALSE,
                     result |-> EmptyObject,
                     input |-> IF t = 0 THEN FullDocInput ELSE PerPageInput(t)]]
  /\ Goto("awaitExtract")
  /\ UNCHANGED << args, adapter, directImageExtraction, resVars, srcVars, pages,
                  ocrVars, tokenVars, numSuccessfulExtractionRequests,
                  numFailedExtractionRequests, extracted, peer >>

\* Lines 577-590 with no task at all: Promise.all([]) resolves and the
\* reduction yields the empty object.
EmptyExtraction ==
  /\ pc = "extract"
  /\ args.schema # "none"
  /\ ~(HasPerPageSchema(args) /\ PerPageInputsThrow)
  /\ ExtractionTasks = {}
  /\ extracted' = Extracted(EmptyObject)
  /\ Goto("finish")
  /\ UNCHANGED << args, adapter, directImageExtraction, resVars, srcVars, pages,
                  ocrVars, tokenVars, ext, numSuccessfulExtractionRequests,
                  numFailedExtractionRequests, peer >>

\* Lines 479-483, 568-572: the catch block of an extraction task re-throws
\* whatever errorMode is, so the task ends rejected.
ExhaustedOutcomeByErrorMode(mode) == IF mode = THROW THEN "rejected" ELSE "done"
ExhaustedOutcome(mode) == "rejected"

\* Line 577: await Promise.all(extractionTasks), seen when a task settles and
\* leaves the tasks as e2: it rejects at the first rejection, resolves when
\* every task has resolved (results merged, lines 578-590), and otherwise
\* stays pending.
PromiseAllExtraction(e2) ==
  IF pc # "awaitExtract"
    THEN UNCHANGED << extracted, flowVars >>
  ELSE IF \E u \in ExtractionTasks : e2[u].pc = "rejected"
    THEN Throw("ExtractionError") /\ UNCHANGED extracted
  ELSE IF \A u \in ExtractionTasks : e2[u].pc = "done"
    THEN extracted' = Extracted(MergeResults(e2)) /\ Goto("finish")
  ELSE UNCHANGED << extracted, flowVars >>

\* The attempt of task t resolves (lines 446-474, 544-562): the counters are
\* updated and the task resolves with its result.
ExtractionCallOk(t) ==
  /\ ext[t].pc = "call"
  /\ LET usage == ExtractionUsage(t)
     IN /\ llmIn' = llmIn + usage.inputTokens
        /\ llmOut' = llmOut + usage.outputTokens
        /\ inputTokenCount' = TokenAdd(inputTokenCount, usage.inputTokens)
        /\ outputTokenCount' = TokenAdd(outputTokenCount, usage.outputTokens)
  /\ numSuccessfulExtractionRequests' = numSuccessfulExtractionRequests + 1
  /\ ext' = [ext EXCEPT ![t].pc = "done", ![t].attempt = 0,
                        ![t].result = IF t = 0 THEN FullDocResult(FullDocAnswer)
                                      ELSE PerPageResult(PerPageAnswer(t), t)]
  /\ PromiseAllExtraction(ext')
  /\ UNCHANGED << args, adapter, directImageExtraction, resVars, srcVars, pages,
                  ocrVars, numFailedExtractionRequests, peer >>

\* The attempt rejects and runRetries has a retry left.
ExtractionCallRetry(t) ==
  /\ ext[t].pc = "call"
  /\ RetriesLeft(ext[t].attempt + 1, args.maxRetries)
  /\ ext' = [ext EXCEPT ![t].attempt = @ + 1]
  /\ UNCHANGED << args, adapter, flowVars, directImageExtraction, resVars, srcVars,
                  pages, ocrVars, tokenVars, numSuccessfulExtractionRequests,
                  numFailedExtractionRequests, extracted, peer >>

\* The attempt rejects with no retry left (lines 479-483, 568-572): the catch
\* block counts the failure and the task settles.
ExtractionCallExhausted(t) ==
  /\ ext[t].pc = "call"
  /\ ~RetriesLeft(ext[t].attempt + 1, args.maxRetries)
  /\ numFailedExtractionRequests' = numFailedExtractionRequests + 1
  /\ ext' = [ext EXCEPT ![t].pc = ExhaustedOutcome(args.errorMode),
                        ![t].attempt = 0, ![t].exhausted = TRUE]
  /\ PromiseAllExtraction(ext')
  /\ UNCHANGED << args, adapter, directImageExtraction, resVars, srcVars, pages,
                  ocrVars, tokenVars, numSuccessfulExtractionRequests, peer >>

\* ---------------------------------------------------- the result and cleanup
Count(present, successful, failed) ==
  [present |-> present, successful |-> successful, failed |-> failed]

\* The page number `undefined` (reading an array past its end).
Undefined == -1

\* Lines 630-643: the number given to the page at index i (from 1) of pages.
CorrectPageNumber(sel, i) ==
  IF sel = AllPages THEN i
  ELSE IF sel.kind = "array"
    THEN (IF i <= Len(sel.value) THEN sel.value[i] ELSE Undefined)
  ELSE sel.value[1]

\* Lines 629-651: the pages, renumbered.
FormattedPages(arr) ==
  [i \in 1 .. Len(arr) |->
     IF arr[i] = Hole THEN Hole
     ELSE [arr[i] EXCEPT !.page = CorrectPageNumber(pagesToConvertAsImages, i)]]

\* Lines 653-683.
ZeroxOutput ==
  [kind |-> "result",
   extracted |-> extracted,
   inputTokens |-> inputTokenCount,
   outputTokens |-> outputTokenCount,
   pages |-> FormattedPages(pages),
   summary |-> [totalPages |-> Len(pages),
                ocr |-> Count(~args.extractOnly, numSuccessfulOCRRequests,
                              numFailedOCRRequests),
                extracted |-> Count(args.schema # "none",
                                    numSuccessfulExtractionRequests,
                                    numFailedExtractionRequests)]]

\* Lines 616-619 and 653-683: await fs.remove(tempDirectory) resolves, the
\* output is built and returned (through the finally block).
HappyCleanup ==
  /\ pc = "finish"
  /\ args.cleanup /\ tempDirectory # 0
  /\ dirs' = dirs \ {tempDirectory}
  /\ pc' = "finally"
  /\ pending' = "return"
  /\ output' = ZeroxOutput
  /\ UNCHANGED << args, adapter, error, directImageExtraction, scheduler, tempDirectory,
                  srcVars, pages, ocrVars, tokenVars, extVars, peer >>

\* Lines 620-622 and 653-683: cleanup is off.
SkipCleanup ==
  /\ pc = "finish"
  /\ ~(args.cleanup /\ tempDirectory # 0)
  /\ pc' = "finally"
  /\ pending' = "return"
  /\ output' = ZeroxOutput
  /\ UNCHANGED << args, adapter, error, directImageExtraction, resVars, srcVars,
                  pages, ocrVars, tokenVars, extVars, peer >>

\* The promise zerox returned settles when the finally block completes.
Settle ==
  /\ pc' = IF pending = "return" THEN "resolved" ELSE "rejected"
  /\ UNCHANGED << pending, error, output >>

\* Lines 685-689: terminateScheduler is called if there is a scheduler (the
\* call is not awaited: "terminated" records that termination was requested).
TerminateIfAny(correctOrientation, sch) ==
  IF correctOrientation /\ sch # "null" THEN "terminated" ELSE sch

\* Line 691: the finally block looks at the temp directory only if
\* cleanup && tempDirectory.
FinallyNeverCleans(cleanup, dir) == FALSE
FinallyCleans(cleanup, dir) == cleanup /\ dir # 0

\* Lines 685-691: the scheduler is terminated; with cleanup on, the block
\* awaits fs.pathExists(tempDirectory).
FinallyAwaitsExists ==
  /\ pc = "finally"
  /\ FinallyCleans(args.cleanup, tempDirectory)
  /\ scheduler' = TerminateIfAny(args.correctOrientation, scheduler)
  /\ Goto("finallyExists")
  /\ UNCHANGED << args, adapter, directImageExtraction, tempDirectory, dirs, srcVars,
                  pages, ocrVars, tokenVars, extVars, peer >>

\* Lines 685-700: the scheduler is terminated; with cleanup off the block is
\* over.
FinallyNoCleanup ==
  /\ pc = "finally"
  /\ ~FinallyCleans(args.cleanup, tempDirectory)
  /\ scheduler' = TerminateIfAny(args.correctOrientation, scheduler)
  /\ Settle
  /\ UNCHANGED << args, adapter, directImageExtraction, tempDirectory, dirs, srcVars,
                  pages, ocrVars, tokenVars, extVars, peer >>

\* Line 691: pathExists resolves true; the block awaits fs.remove.
FinallyDirExists ==
  /\ pc = "finallyExists"
  /\ tempDirectory \in dirs
  /\ Goto("finallyRemove")
  /\ UNCHANGED << args, adapter, directImageExtraction, resVars, srcVars, pages,
                  ocrVars, tokenVars, extVars, peer >>

\* Line 691: pathExists resolves false.
FinallyDirGone ==
  /\ pc = "finallyExists"
  /\ tempDirectory \notin dirs
  /\ Settle
  /\ UNCHANGED << args, adapter, directImageExtraction, resVars, srcVars, pages,
                  ocrVars, tokenVars, extVars, peer >>

\* Lines 692-698: fs.remove resolves.
FinallyRemove ==
  /\ pc = "finallyRemove"
  /\ dirs' = dirs \ {tempDirectory}
  /\ Settle
  /\ UNCHANGED << args, adapter, directImageExtraction, scheduler, tempDirectory,
                  srcVars, pages, ocrVars, tokenVars, extVars, peer >>

\* ------------------------------------- a concurrent invocation (same root)
\* Another zerox call that was given the same tempDir root, seen through the
\* temp directory it works in.
\* Lines 150-157 of that invocation.
PeerMkTemp ==
  /\ peer.pc = "idle"
  /\ \E rand \in RandValues :
       /\ peer' = [pc |-> "running", dir |-> rand]
       /\ dirs' = dirs \cup {rand}
  /\ UNCHANGED << args, adapter, flowVars, directImageExtraction, scheduler,
                  tempDirectory, srcVars, pages, ocrVars, tokenVars, extVars >>

\* Lines 243 and 290 of that invocation: a read of one of its files rejects
\* because the directory is gone; the invocation rejects.
PeerReadFails ==
  /\ peer.pc = "running"
  /\ peer.dir \notin dirs
  /\ peer' = [peer EXCEPT !.pc = "failed"]
  /\ UNCHANGED << args, adapter, flowVars, directImageExtraction, resVars, srcVars,
                  pages, ocrVars, tokenVars, extVars >>

\* Lines 616-618 or 691-694 of that invocation: it removes its directory and
\* settles.
PeerCleanup ==
  /\ peer.pc = "running"
  /\ dirs' = dirs \ {peer.dir}
  /\ peer' = [peer EXCEPT !.pc = "done"]
  /\ UNCHANGED << args, adapter, flowVars, directImageExtraction, scheduler,
                  tempDirectory, srcVars, pages, ocrVars, tokenVars, extVars >>

\* ------------------------------------------------- the provider adapters
\* OpenAIModel (src/unnamed/part_007) and GoogleModel (src/unnamed/part_006).
\* A model identifier is the sequence of its characters.
Gpt4o == << "g", "p", "t", "-", "4", "o" >>
Gpt5 == << "g", "p", "t", "-", "5" >>
O1 == << "o", "1" >>
O3 == << "o", "3" >>
O4Mini == << "o", "4", "-", "m", "i", "n", "i" >>
Omni == << "o", "m", "n", "i" >>
Gemini3Pro == << "g", "e", "m", "i", "n", "i", "-", "3", "-", "p", "r", "o" >>
Gemini3 == << "g", "e", "m", "i", "n", "i", "-", "3" >>
Gemini25 == << "g", "e", "m", "i", "n", "i", "-", "2", ".", "5" >>

OpenAIModels == {Gpt4o, Gpt5, O1, O3, O4Mini, Omni}
GoogleModels == {Gemini3Pro, Gemini3, Gemini25}

\* String.prototype.startsWith.
StartsWith(s, prefix) ==
  Len(prefix) <= Len(s) /\ SubSeq(s, 1, Len(prefix)) = prefix

\* The system prompts: none given (""), the caller's, the built-in
\* instruction (constants.ts:71-83), a prompt fetched from Langfuse, and the
\* extraction default.
CALLER_PROMPT == "caller prompt"
DEFAULT_SYSTEM_PROMPT == "Convert the following document to markdown."
LANGFUSE_PROMPT == "prompt fetched from Langfuse"
EXTRACT_SCHEMA_DATA == "Extract schema data"

OCR == "OCR"
EXTRACTION == "EXTRACTION"

\* An optional numeric field of a request.
None == [present |-> FALSE, value |-> 0]
Some(v) == [present |-> TRUE, value |-> v]

\* What an adapter instance is constructed with, and what its calls are given
\* (the caller's prompt, and whether the extraction input holds image paths).
OpenAIConfigs ==
  { c \in [ provider : {"openai"}, vertex : {FALSE}, model : OpenAIModels,
            hasMaxTokens : BOOLEAN, maxTokens : 0 .. MaxTokens,
            prompt : {"", CALLER_PROMPT},
            thinkingLevel : {""}, mediaResolution : {""},
            input : {"text", "images"} ] :
      ~c.hasMaxTokens => c.maxTokens = 0 }

GoogleConfigs ==
  [ provider : {"google"}, vertex : BOOLEAN, model : GoogleModels,
    hasMaxTokens : {FALSE}, maxTokens : {0},
    prompt : {"", CALLER_PROMPT},
    thinkingLevel : {"", "low", "high"},
    mediaResolution : {"", "low", "medium", "high"},
    input : {"text", "images"} ]

NoProviderRequest ==
  [mode |-> "none", system |-> << >>, max_tokens |-> None,
   max_completion_tokens |-> None, thinkingLevel |-> "", mediaResolution |-> ""]

\* The instance after its constructor (part_006:38-80, part_007:27-35), with
\* SYSTEM_PROMPT_BASE as the module is loaded (constants.ts:68).
NewAdapter(c) ==
  [config |-> c, systemPromptBase |-> "",
   hasLoggedVertexThinkingWarning |-> FALSE, warnings |-> 0,
   calls |-> 0, pc |-> "idle", mode |-> "none", sent |-> 0,
   request |-> NoProviderRequest, outcome |-> "none"]

\* JS a || b on strings.
OrElse(a, b) == IF a = "" THEN b ELSE a

\* part_007:99-104 and part_006:164: the system prompt of an OCR request.
OcrSystemPrompt(prompt, base) == << OrElse(prompt, base) >>

\* part_007:168-170: OpenAI adds a system message to an extraction request
\* only when a prompt is given; part_006:262: Google falls back to the
\* default.
ExtractionSystemPrompt(provider, prompt) ==
  IF provider = "openai"
    THEN (IF prompt # "" THEN << prompt >> ELSE << >>)
    ELSE << OrElse(prompt, EXTRACT_SCHEMA_DATA) >>

\* part_007:124-129 and 178-182: the models whose max_tokens is renamed.
RenamesMaxTokens(model, mode) ==
  IF mode = OCR
    THEN \/ StartsWith(model, << "o" >>)
         \/ StartsWith(model, << "o", "3" >>)
         \/ StartsWith(model, << "o", "4" >>)
         \/ StartsWith(model, << "g", "p", "t", "-", "5" >>)
    ELSE \/ StartsWith(model, << "o", "1" >>)
         \/ StartsWith(model, << "o", "3" >>)
         \/ StartsWith(model, << "g", "p", "t", "-", "5" >>)

\* convertKeysToSnakeCase(this.llmParams): maxTokens becomes max_tokens.
SnakeCaseParams(c) ==
  [max_tokens |-> IF c.hasMaxTokens THEN Some(c.maxTokens) ELSE None,
   max_completion_tokens |-> None]

\* part_007:130-134 and 183-187: if (params.max_tokens) { rename }.
OpenAIParams(c, mode) ==
  LET params == SnakeCaseParams(c)
  IN IF /\ RenamesMaxTokens(c.model, mode)
        /\ params.max_tokens.present /\ params.max_tokens.value # 0
       THEN [max_tokens |-> None, max_completion_tokens |-> params.max_tokens]
       ELSE params

\* part_006:20-29: the provider constants.
GEMINI_3_THINKING_LEVEL_MAP ==
  [level \in {"low", "high"} |->
     IF level = "low" THEN "THINKING_LEVEL_LOW" ELSE "THINKING_LEVEL_HIGH"]
GEMINI_3_MEDIA_RESOLUTION_MAP ==
  [res \in {"low", "medium", "high"} |->
     IF res = "low" THEN "MEDIA_RESOLUTION_LOW"
     ELSE IF res = "medium" THEN "MEDIA_RESOLUTION_MEDIUM"
     ELSE "MEDIA_RESOLUTION_HIGH"]

\* part_006:317-319.
IsAnyGemini(model) == StartsWith(model, << "g", "e", "m", "i", "n", "i", "-" >>)
IsGemini3Model(model) ==
  StartsWith(model, << "g", "e", "m", "i", "n", "i", "-", "3", "-" >>)

\* part_006:335-358: the thinking level put into the config ("" for none).
ThinkingLevelSent(c) ==
  IF IsGemini3Model(c.model) /\ c.thinkingLevel # "" /\ ~c.vertex
    THEN GEMINI_3_THINKING_LEVEL_MAP[c.thinkingLevel] ELSE ""

\* part_006:360-370: the media resolution put into the config ("" for none).
MediaResolutionSent(c) ==
  IF IsGemini3Model(c.model) /\ c.mediaResolution # ""
    THEN GEMINI_3_MEDIA_RESOLUTION_MAP[c.mediaResolution] ELSE ""

\* part_006:336-342: the call finds thinkingLevel set on a Vertex deployment.
SkipsThinkingLevel(c) ==
  c.provider = "google" /\ IsGemini3Model(c.model) /\ c.thinkingLevel # "" /\ c.vertex

\* part_006:337-342: the warning is logged unless the flag is set.
WarnsEveryTime(hasLogged) == TRUE
WarnsNow(hasLogged) == ~hasLogged

\* The request handed to the provider's client (part_007:137-141, 189-196;
\* part_006:166-177, 264-277).
ProviderRequest(c, mode, base) ==
  LET params == IF c.provider = "openai" THEN OpenAIParams(c, mode)
                ELSE [max_tokens |-> None, max_completion_tokens |-> None]
  IN [mode |-> mode,
      system |-> IF mode = OCR THEN OcrSystemPrompt(c.prompt, base)
                 ELSE ExtractionSystemPrompt(c.provider, c.prompt),
      max_tokens |-> params.max_tokens,
      max_completion_tokens |-> params.max_completion_tokens,
      thinkingLevel |-> IF c.provider = "google" THEN ThinkingLevelSent(c) ELSE "",
      mediaResolution |-> IF c.provider = "google" THEN MediaResolutionSent(c) ELSE ""]

\* constants.ts:88-153: fetchSystemPrompt stores the built-in instruction, or
\* the prompt Langfuse returned.
FetchSystemPrompt ==
  /\ \E fetched \in {DEFAULT_SYSTEM_PROMPT, LANGFUSE_PROMPT} :
       /\ fetched # adapter.systemPromptBase
       /\ adapter' = [adapter EXCEPT !.systemPromptBase = fetched]
  /\ UNCHANGED zeroxVars

\* The handler builds the request and calls the provider's client; on Google
\* applyGemini3Overrides runs first and may log the Vertex warning.
Send(a) ==
  LET warn == SkipsThinkingLevel(a.config) /\ WarnsNow(a.hasLoggedVertexThinkingWarning)
  IN [a EXCEPT
        !.pc = "request",
        !.sent = @ + 1,
        !.request = ProviderRequest(a.config, a.mode, a.systemPromptBase),
        !.warnings = IF warn THEN @ + 1 ELSE @,
        !.hasLoggedVertexThinkingWarning = @ \/ SkipsThinkingLevel(a.config)]

\* getCompletion(mode, params) is called (part_006:82-98, part_007:37-53).
\* handleOCR sends its request at once; handleExtraction first awaits
\* createMessageContent.
GetCompletion(mode) ==
  /\ adapter.pc = "idle"
  /\ adapter.calls < MaxCalls
  /\ LET called == [adapter EXCEPT !.calls = @ + 1, !.mode = mode, !.sent = 0,
                                   !.outcome = "pending"]
     IN adapter' = IF mode = OCR THEN Send(called)
                   ELSE [called EXCEPT !.pc = "content"]
  /\ UNCHANGED zeroxVars

\* createMessageContent resolves (part_006:99-136, part_007:55-91).
ContentOk ==
  /\ adapter.pc = "content"
  /\ adapter' = Send(adapter)
  /\ UNCHANGED zeroxVars

\* Reading or cleaning one of the input's images rejects: the call rejects
\* and no request is sent.
ContentFails ==
  /\ adapter.pc = "content"
  /\ adapter.config.input = "images"
  /\ adapter' = [adapter EXCEPT !.pc = "idle", !.outcome = "rejected"]
  /\ UNCHANGED zeroxVars

\* The provider answers: the call resolves with the response.
ProviderOk ==
  /\ adapter.pc = "request"
  /\ adapter' = [adapter EXCEPT !.pc = "idle", !.outcome = "resolved"]
  /\ UNCHANGED zeroxVars

\* The provider call rejects: the catch block logs and re-throws
\* (part_007:158-161, part_006:220-232).
ProviderFails ==
  /\ adapter.pc = "request"
  /\ adapter' = [adapter EXCEPT !.pc = "idle", !.outcome = "rejected"]
  /\ UNCHANGED zeroxVars

\* ------------------------------------------------------------ specification
OCRStep ==
  \E i \in PageIds :
    \/ OCRReadOk(i) \/ OCRReadFails(i) \/ OCRCleanOk(i) \/ OCRCleanFails(i)
    \/ OCRCallRetry(i) \/ OCRCallExhaustedThrow(i) \/ OCRCallExhaustedIgnore(i)
    \/ OCRCallOk(i)

ExtractionStep ==
  \E t \in 0 .. MaxPages :
    ExtractionCallOk(t) \/ ExtractionCallRetry(t) \/ ExtractionCallExhausted(t)

Next ==
  \/ ValidateRejects \/ ValidateAccepts
  \/ GetScheduler \/ AddWorkersOk \/ AddWorkersFails
  \/ MkTemp \/ DownloadOk \/ DownloadFails
  \/ ReadStructured \/ CheckCFB \/ RasterizeOk \/ RasterizeFails
  \/ CompressOk \/ CompressFails
  \/ PrepareWorkersOk \/ PrepareWorkersFails
  \/ SkipOCR \/ StartOCRSequential \/ StartOCRConcurrent
  \/ OCRStep
  \/ NoExtraction \/ BuildExtractionThrows \/ StartExtraction \/ EmptyExtraction
  \/ ExtractionStep
  \/ HappyCleanup \/ SkipCleanup
  \/ FinallyAwaitsExists \/ FinallyNoCleanup
  \/ FinallyDirExists \/ FinallyDirGone \/ FinallyRemove

Spec == Init /\ [][Next]_vars

\* Two invocations under one tempDir root: a plain concurrent OCR run (no
\* schema, no orientation correction) next to the peer invocation.
PlainRun(a) ==
  /\ ValidationError(a) = "none"
  /\ Canonical(a)
  /\ a.schema = "none" /\ ~a.structured /\ ~a.maintainFormat
  /\ ~a.directImageExtraction /\ ~a.correctOrientation
  /\ a.maxRetries = 0

InitPeer ==
  \E x \in DefaultSources : \E b \in BaseArgs :
     PlainRun(b @@ x) /\ InitState(b @@ x)

NextPeer ==
  \/ ValidateAccepts
  \/ MkTemp \/ DownloadOk \/ DownloadFails
  \/ CheckCFB \/ RasterizeOk \/ RasterizeFails
  \/ CompressOk \/ CompressFails
  \/ StartOCRConcurrent
  \/ \E i \in PageIds :
       \/ OCRReadOk(i) \/ OCRReadFails(i) \/ OCRCleanOk(i) \/ OCRCleanFails(i)
       \/ OCRCallExhaustedThrow(i) \/ OCRCallExhaustedIgnore(i) \/ OCRCallOk(i)
  \/ NoExtraction
  \/ HappyCleanup \/ SkipCleanup
  \/ FinallyAwaitsExists \/ FinallyNoCleanup
  \/ FinallyDirExists \/ FinallyDirGone \/ FinallyRemove
  \/ PeerMkTemp \/ PeerReadFails \/ PeerCleanup

SpecPeer == InitPeer /\ [][NextPeer]_vars

\* Plain concurrent OCR runs of a PDF (no schema, no orientation correction)
\* with every concurrency, retry budget and error mode.  The event loop runs
\* every callback that stays ready, so each page's processOCR steps are
\* weakly fair.
LimiterRun(a) ==
  /\ ValidationError(a) = "none"
  /\ Canonical(a)
  /\ a.extension = ".pdf"
  /\ a.schema = "none" /\ ~a.maintainFormat /\ ~a.extractOnly
  /\ ~a.directImageExtraction /\ ~a.enableHybridExtraction
  /\ ~a.correctOrientation

InitLimiter ==
  \E x \in DefaultSources : \E b \in BaseArgs :
     LimiterRun(b @@ x) /\ InitState(b @@ x)

OCRTask(i) ==
  \/ OCRReadOk(i) \/ OCRReadFails(i) \/ OCRCleanOk(i) \/ OCRCleanFails(i)
  \/ OCRCallRetry(i) \/ OCRCallExhaustedThrow(i) \/ OCRCallExhaustedIgnore(i)
  \/ OCRCallOk(i)

NextLimiter ==
  \/ ValidateAccepts
  \/ MkTemp \/ DownloadOk \/ DownloadFails
  \/ CheckCFB \/ RasterizeOk \/ RasterizeFails
  \/ CompressOk \/ CompressFails
  \/ StartOCRConcurrent
  \/ \E i \in PageIds : OCRTask(i)
  \/ NoExtraction
  \/ HappyCleanup \/ SkipCleanup
  \/ FinallyAwaitsExists \/ FinallyNoCleanup
  \/ FinallyDirExists \/ FinallyDirGone \/ FinallyRemove

SpecLimiter ==
  InitLimiter /\ [][NextLimiter]_vars /\ \A i \in PageIds : WF_vars(OCRTask(i))

\* The retry runner around the model calls of a PDF run with any schema, next
\* to one adapter instance serving getCompletion calls.
RetryRun(a) ==
  /\ ValidationError(a) = "none"
  /\ Canonical(a)
  /\ a.extension = ".pdf"
  /\ ~a.maintainFormat /\ ~a.extractOnly
  /\ ~a.directImageExtraction /\ ~a.enableHybridExtraction
  /\ ~a.correctOrientation /\ ~a.cleanup
  /\ a.concurrency = 1

RetryConfigs ==
  { c \in OpenAIConfigs \cup GoogleConfigs :
      /\ c.model \in {Gpt4o, Gemini25} /\ ~c.vertex
      /\ ~c.hasMaxTokens /\ c.prompt = CALLER_PROMPT
      /\ c.thinkingLevel = "" /\ c.mediaResolution = ""
      /\ c.input = "images" }

InitRetry ==
  /\ \E x \in DefaultSources : \E b \in BaseArgs :
       RetryRun(b @@ x) /\ InitLocals(b @@ x)
  /\ \E c \in RetryConfigs : adapter = NewAdapter(c)

NextRetry ==
  \/ ValidateAccepts \/ MkTemp \/ DownloadOk
  \/ CheckCFB \/ RasterizeOk \/ CompressOk
  \/ StartOCRConcurrent
  \/ \E i \in PageIds :
       \/ OCRReadOk(i) \/ OCRCleanOk(i)
       \/ OCRCallRetry(i) \/ OCRCallExhaustedThrow(i)
       \/ OCRCallExhaustedIgnore(i) \/ OCRCallOk(i)
  \/ NoExtraction \/ StartExtraction
  \/ ExtractionStep
  \/ SkipCleanup \/ FinallyNoCleanup
  \/ GetCompletion(OCR) \/ GetCompletion(EXTRACTION)
  \/ ContentOk \/ ContentFails
  \/ ProviderOk \/ ProviderFails

SpecRetry == InitRetry /\ [][NextRetry]_vars

\* Every combination of the flags and of the presence of credentials, legacy
\* key, file path and schema, on a one-page document with no retry.
ConfigRun(a) ==
  /\ a.structured <=> a.extension = ".xlsx"
  /\ a.numPages = 1 /\ a.maxRetries = 0 /\ a.concurrency = 1
  /\ a.errorMode = IGNORE /\ a.cleanup

InitConfig ==
  \E x \in DefaultSources : \E b \in BaseArgs :
     ConfigRun(b @@ x) /\ InitState(b @@ x)

NextConfig ==
  \/ ValidateRejects \/ ValidateAccepts
  \/ GetScheduler \/ AddWorkersOk \/ AddWorkersFails
  \/ MkTemp \/ DownloadOk \/ DownloadFails
  \/ ReadStructured \/ CheckCFB \/ RasterizeOk \/ RasterizeFails
  \/ CompressOk \/ CompressFails
  \/ PrepareWorkersOk \/ PrepareWorkersFails
  \/ SkipOCR \/ StartOCRSequential \/ StartOCRConcurrent
  \/ \E i \in PageIds :
       \/ OCRReadOk(i) \/ OCRCleanOk(i) \/ OCRCleanFails(i)
       \/ OCRCallExhaustedIgnore(i) \/ OCRCallOk(i)
  \/ NoExtraction \/ StartExtraction \/ EmptyExtraction
  \/ \E t \in 0 .. MaxPages : ExtractionCallOk(t) \/ ExtractionCallExhausted(t)
  \/ HappyCleanup
  \/ FinallyAwaitsExists \/ FinallyDirExists \/ FinallyDirGone \/ FinallyRemove

SpecConfig == InitConfig /\ [][NextConfig]_vars

\* Every kind of source file and every page selection, through a plain OCR
\* run (no schema, one task at a time, no retry).
SourceRun(b) ==
  /\ ValidationError(b) = "none"
  /\ b.schema = "none" /\ ~b.maintainFormat /\ ~b.directImageExtraction
  /\ ~b.correctOrientation /\ ~b.cleanup /\ ~b.openaiAPIKey
  /\ b.errorMode = IGNORE /\ b.maxRetries = 0 /\ b.concurrency = 1

SourceBases == {b \in BaseArgs : SourceRun(b)}

PlainSources == {x \in SourceArgs : x.answers = PlainAnswers}

InitSource ==
  \E b \in SourceBases : \E x \in PlainSources :
     Canonical(b @@ x) /\ InitState(b @@ x)

NextSource ==
  \/ ValidateAccepts \/ MkTemp \/ DownloadOk
  \/ ReadStructured \/ UseImageFile \/ ConvertHeicOk
  \/ CheckCFB \/ ConvertToPdfOk \/ CountPages
  \/ RasterizeOk \/ RasterizeFails
  \/ CompressOk
  \/ StartOCRConcurrent
  \/ \E i \in PageIds :
       \/ OCRReadOk(i) \/ OCRCleanOk(i)
       \/ OCRCallExhaustedIgnore(i) \/ OCRCallOk(i)
  \/ NoExtraction
  \/ SkipCleanup \/ FinallyNoCleanup

SpecSource == InitSource /\ [][NextSource]_vars

\* Text extraction with a schema, over every answer the extraction model can
\* give, from a PDF or a workbook.
MergeRun(b) ==
  /\ ValidationError(b) = "none"
  /\ b.schema # "none" /\ ~b.maintainFormat /\ ~b.directImageExtraction
  /\ ~b.enableHybridExtraction /\ ~b.extractOnly
  /\ ~b.correctOrientation /\ ~b.cleanup /\ ~b.openaiAPIKey
  /\ b.errorMode = IGNORE /\ b.maxRetries = 0 /\ b.concurrency = 1

MergeBases == {b \in BaseArgs : MergeRun(b)}

MergeSources ==
  {x \in SourceArgs : /\ x.extension \in {".pdf", ".xlsx"} /\ ~x.isCFBFile
                       /\ x.pagesToConvertAsImages = AllPages}

InitMerge ==
  \E b \in MergeBases : \E x \in MergeSources :
     Canonical(b @@ x) /\ InitState(b @@ x)

NextMerge ==
  \/ ValidateAccepts \/ MkTemp \/ DownloadOk
  \/ ReadStructured \/ CheckCFB \/ RasterizeOk \/ CompressOk
  \/ StartOCRConcurrent
  \/ \E i \in PageIds : OCRReadOk(i) \/ OCRCleanOk(i) \/ OCRCallOk(i)
  \/ StartExtraction
  \/ \E t \in 0 .. MaxPages : ExtractionCallOk(t)
  \/ SkipCleanup \/ FinallyNoCleanup

SpecMerge == InitMerge /\ [][NextMerge]_vars

\* Text extraction with a schema from a PDF under every page selection.
NumberingSources ==
  {x \in PlainSources : x.extension = ".pdf" /\ ~x.isCFBFile}

InitNumbering ==
  \E b \in MergeBases : \E x \in NumberingSources :
     Canonical(b @@ x) /\ InitState(b @@ x)

NextNumbering ==
  \/ ValidateAccepts \/ MkTemp \/ DownloadOk
  \/ CheckCFB \/ CountPages
  \/ RasterizeOk \/ RasterizeFails
  \/ CompressOk
  \/ StartOCRConcurrent
  \/ \E i \in PageIds : OCRReadOk(i) \/ OCRCleanOk(i) \/ OCRCallOk(i)
  \/ StartExtraction \/ EmptyExtraction
  \/ \E t \in 0 .. MaxPages : ExtractionCallOk(t)
  \/ SkipCleanup \/ FinallyNoCleanup

SpecNumbering == InitNumbering /\ [][NextNumbering]_vars

\* One adapter instance, whatever it was constructed with, and the calls made
\* on it; the pipeline that owns it stays where it is.
AdapterHost ==
  [maintainFormat |-> FALSE, errorMode |-> IGNORE, cleanup |-> TRUE,
   correctOrientation |-> FALSE, concurrency |-> 1, maxRetries |-> 0,
   numPages |-> 1, schema |-> "none", directImageExtraction |-> FALSE,
   enableHybridExtraction |-> FALSE, extractOnly |-> FALSE,
   structured |-> FALSE, credentialsEmpty |-> FALSE, openaiAPIKey |-> FALSE,
   filePathEmpty |-> FALSE, extension |-> ".pdf", isCFBFile |-> FALSE,
   pagesToConvertAsImages |-> AllPages, answers |-> PlainAnswers]

InitAdapter ==
  /\ InitLocals(AdapterHost)
  /\ \E c \in OpenAIConfigs \cup GoogleConfigs : adapter = NewAdapter(c)

NextAdapter ==
  \/ FetchSystemPrompt
  \/ GetCompletion(OCR) \/ GetCompletion(EXTRACTION)
  \/ ContentOk \/ ContentFails
  \/ ProviderOk \/ ProviderFails

SpecAdapter == InitAdapter /\ [][NextAdapter]_vars

\* ------------------------------------------------------------- properties
Resolved == pc = "resolved"
Rejected == pc = "rejected"

\* A run that rasterizes the document and performs OCR on the images.
OcrRun == ~args.structured /\ ~args.extractOnly

\* The content the model can give for the image at index i of imagePaths.
ContentsOf(i) == { SelectSeq(a, NotFence) : a \in RawAnswers(imagePaths[i].n) }

\* C1: with maintainFormat=false, whatever the concurrency and the order in
\* which the OCR tasks complete, when zerox resolves the returned pages array
\* has one entry per image, entry i is what the task of the i-th image
\* returned (numbered i, with that image's content), and every slot of the
\* array was written exactly once.
C1_PagesInPageOrder ==
  (Resolved /\ OcrRun /\ ~args.maintainFormat) =>
     /\ Len(output.pages) = NumImages
     /\ \A i \in 1 .. NumImages :
          /\ ocr[i].pc = "done"
          /\ output.pages[i] = ocr[i].page
          /\ output.pages[i].page = i
          /\ output.pages[i].status = SUCCESS =>
               output.pages[i].content \in ContentsOf(i)
          /\ slotWrites[i] = 1
     /\ \A i \in PageIds : i > NumImages => slotWrites[i] = 0

\* C1 witness: two tasks ran side by side, the task of page 2 completed first
\* (priorPage holds the content of the response that arrived last) and zerox
\* resolved.
C1_Witness ==
  /\ Resolved /\ OcrRun /\ ~args.maintainFormat
  /\ args.concurrency = 2 /\ NumImages = 2
  /\ output.pages[1].status = SUCCESS /\ output.pages[2].status = SUCCESS
  /\ output.pages[1].content # << >>
  /\ priorPage = output.pages[1].content
  /\ priorPage # output.pages[2].content

\* C2: with maintainFormat=true at most one page's OCR is in flight at any
\* time, and the OCR of page k+1 has not been started unless page k is in the
\* pages array with status SUCCESS.
C2_StrictlySequential ==
  (OcrRun /\ args.maintainFormat) =>
     /\ Cardinality(InFlight(ocr)) <= 1
     /\ Queued(ocr) = {}
     /\ \A k \in PageIds :
          (k + 1 \in PageIds /\ ocr[k + 1].pc # "idle") =>
             /\ ocr[k].pc = "done"
             /\ Defined(pages, k)
             /\ pages[k].status = SUCCESS

\* C2 witness: the OCR call of page 2 is in flight after page 1 succeeded.
C2_Witness ==
  /\ args.maintainFormat
  /\ ocr[2].pc = "call"
  /\ pages[1].status = SUCCESS

\* The k-th page's request in maintainFormat mode, as the claim C3 was first
\* stated: for k > 1 it carries page k-1's content as priorPage and always the
\* consistency prompt built from it.
C3_PromptAlways ==
  (OcrRun /\ args.maintainFormat) =>
     \A k \in PageIds :
        ocr[k].request.sent =>
           IF k = 1
             THEN /\ ocr[k].request.priorPage = << >>
                  /\ ~ocr[k].request.consistency.present
             ELSE /\ ocr[k].request.priorPage = pages[k - 1].content
                  /\ ocr[k].request.consistency.present
                  /\ ocr[k].request.consistency.text
                       = CONSISTENCY_PROMPT(pages[k - 1].content)

\* C3 (amended): with maintainFormat=true, for k > 1 the priorPage given to
\* every attempt of page k's OCR call is the processed content of page k-1,
\* and the request carries the consistency prompt built from it exactly when
\* that content is not empty; for page 1 priorPage is empty and there is no
\* consistency prompt.
C3_PromptUnlessEmpty ==
  (OcrRun /\ args.maintainFormat) =>
     \A k \in PageIds :
        ocr[k].request.sent =>
           IF k = 1
             THEN /\ ocr[k].request.priorPage = << >>
                  /\ ~ocr[k].request.consistency.present
             ELSE /\ ocr[k].request.priorPage = pages[k - 1].content
                  /\ ocr[k].request.consistency.present
                       <=> (pages[k - 1].content # << >>)
                  /\ ocr[k].request.consistency.present =>
                       ocr[k].request.consistency.text
                         = CONSISTENCY_PROMPT(pages[k - 1].content)

\* C3 witness: a retry attempt of page 2's call carries the consistency prompt
\* built from page 1's content.
C3_Witness ==
  /\ args.maintainFormat
  /\ ocr[2].pc = "call" /\ ocr[2].attempt = 1
  /\ ocr[2].request.consistency.present
  /\ ocr[2].request.priorPage = pages[1].content

ErrorPages(arr) == {i \in 1 .. Len(arr) : arr[i] # Hole /\ arr[i].status = ERROR}
InFinally == pc \in {"finally", "finallyExists", "finallyRemove"}

\* C4: with maintainFormat=false, a page whose OCR call fails on every
\* attempt makes zerox reject with that error and no result under errorMode
\* THROW; under IGNORE zerox never rejects with it, and when it resolves every
\* image has its page, the failed page is the ERROR page at its own index,
\* summary.ocr.failed is the number of ERROR pages and successful + failed is
\* the number of pages.
C4_OcrFailureByErrorMode ==
  (OcrRun /\ ~args.maintainFormat) =>
     /\ args.errorMode = THROW =>
          /\ ErrorPages(pages) = {} /\ numFailedOCRRequests = 0
          /\ (\E i \in PageIds : ocr[i].error = "OcrError") =>
               /\ InFinally \/ Rejected
               /\ pending = "throw" /\ output = NoOutput
               /\ (\A j \in PageIds : ocr[j].error \in {"none", "OcrError"})
                    => error = "OcrError"
     /\ args.errorMode = IGNORE =>
          /\ error # "OcrError"
          /\ \A i \in PageIds : ocr[i].error # "OcrError"
          /\ Resolved =>
               /\ Len(output.pages) = NumImages
               /\ \A i \in 1 .. NumImages :
                    /\ output.pages[i].status \in {SUCCESS, ERROR}
                    /\ output.pages[i].status = ERROR =>
                         output.pages[i] = ErrorPage(i)
               /\ output.summary.ocr.failed = Cardinality(ErrorPages(output.pages))
               /\ output.summary.ocr.successful + output.summary.ocr.failed
                    = Len(output.pages)

\* C4 witness: under IGNORE zerox resolved with page 1 an ERROR page and page 2
\* a SUCCESS page.
C4_Witness ==
  /\ Resolved /\ OcrRun /\ ~args.maintainFormat /\ args.errorMode = IGNORE
  /\ NumImages = 2
  /\ output.pages[1] = ErrorPage(1)
  /\ output.pages[2].status = SUCCESS
  /\ output.summary.ocr.failed = 1 /\ output.summary.ocr.successful = 1

ExtractionAttempted ==
  \/ extracted # NullExtracted
  \/ \E t \in 0 .. MaxPages : ext[t].pc # "idle"

\* C5: with maintainFormat=true and errorMode=IGNORE, once page k's OCR has
\* failed after its retries no OCR is started for a later page, zerox does not
\* reject because of the failure, and with a schema extraction is attempted
\* over the completed pages, whatever the extraction mode.
C5_HaltThenExtract ==
  (OcrRun /\ args.maintainFormat /\ args.errorMode = IGNORE) =>
     \A k \in ErrorPages(pages) :
        /\ \A j \in PageIds : j > k => ocr[j].pc = "idle"
        /\ error \notin {"OcrError", "TypeError"}
        /\ (args.schema # "none" /\ pc \notin {"awaitOCR", "extract"})
             => ExtractionAttempted

\* C6: once an extraction task has failed after its retries, the task is
\* rejected whatever errorMode is, zerox never resolves and never delivers a
\* result (no partial extracted data), and it rejects with the extraction
\* error.
C6_ExtractionFailureRejects ==
  (\E t \in 0 .. MaxPages : ext[t].exhausted) =>
     /\ \A t \in 0 .. MaxPages : ext[t].exhausted => ext[t].pc = "rejected"
     /\ InFinally \/ Rejected
     /\ pending = "throw" /\ error = "ExtractionError"
     /\ output = NoOutput /\ extracted = NullExtracted

\* C6 witness: under IGNORE one extraction task succeeded, another failed after
\* its retries, and zerox rejected.
C6_Witness ==
  /\ Rejected /\ args.errorMode = IGNORE /\ args.maxRetries = 1
  /\ error = "ExtractionError"
  /\ \E t, u \in 0 .. MaxPages : ext[t].exhausted /\ ext[u].pc = "done"

C8_SchedulerTerminated ==
  ((Resolved \/ Rejected) /\ scheduler # "null") => scheduler = "terminated"

\* The invocation is using the files of its temp directory: from the download
\* to the end of OCR and extraction (hybrid and direct extraction read the
\* images).
UsingFiles == pc \in {"download", "fileType", "compress", "ocr", "awaitOCR"}

\* C9: two invocations running at the same time under one tempDir root work
\* in different temp directories, and the directory of an invocation that is
\* still using its files exists.
C9_OwnTempDirectory ==
  /\ (UsingFiles /\ peer.pc = "running") => tempDirectory # peer.dir
  /\ UsingFiles => tempDirectory \in dirs
  /\ peer.pc = "running" => peer.dir \in dirs

\* C10: when zerox resolves, inputTokens and outputTokens are the sums of the
\* input and output token counts of the successful OCR and extraction calls.
C10_TokenSums ==
  Resolved =>
     /\ output.inputTokens = llmIn
     /\ output.outputTokens = llmOut

\* C10 witness: zerox resolved after two concurrent OCR calls and three
\* extraction calls (two per page, one for the full document) succeeded.
C10_Witness ==
  /\ Resolved /\ OcrRun /\ ~args.maintainFormat /\ args.concurrency = 2
  /\ args.maxRetries = 1
  /\ output.summary.ocr.successful = 2
  /\ output.summary.extracted.successful = 3
  /\ output.inputTokens = 9 /\ output.outputTokens = 8

\* The extraction tasks whose LLM call is in flight.
ExtractionInFlight == {t \in 0 .. MaxPages : ext[t].pc = "call"}

\* C11: during the extraction stage no more than `concurrency` extraction
\* LLM calls are in flight at any time.
C11_ExtractionWithinBudget ==
  Cardinality(ExtractionInFlight) <= args.concurrency

\* No work has been done: no scheduler, no temp directory, nothing acquired,
\* no task started and no LLM call made.
NoWorkDone ==
  /\ scheduler = "null"
  /\ tempDirectory = 0 /\ dirs = {}
  /\ imagePaths = << >> /\ pages = << >>
  /\ \A i \in PageIds : ocr[i] = IdleTask
  /\ \A t \in 0 .. MaxPages : ext[t] = IdleExtraction
  /\ llmIn = 0 /\ llmOut = 0

\* C12: when the credentials are entirely empty and no legacy openaiAPIKey is
\* given, or the file path is missing or empty, zerox rejects, and no work is
\* done before or after: the run is either not yet validated or rejected.
C12_RejectsBeforeAnyWork ==
  ((args.credentialsEmpty /\ ~args.openaiAPIKey) \/ args.filePathEmpty) =>
     /\ pc \in {"validate", "rejected"}
     /\ Rejected => error \in {"Missing credentials", "Missing file path"}
     /\ output = NoOutput
     /\ NoWorkDone

\* C12 witness: orientation correction was requested, the file path is there
\* but the credentials are empty, and zerox has rejected.
C12_Witness ==
  /\ Rejected /\ error = "Missing credentials"
  /\ args.credentialsEmpty /\ ~args.filePathEmpty /\ args.correctOrientation
  /\ NoWorkDone

\* The argument combinations the validators are to refuse.
ConflictingModes(a) ==
  \/ a.enableHybridExtraction /\ (a.directImageExtraction \/ a.extractOnly)
  \/ (a.enableHybridExtraction \/ a.extractOnly) /\ a.schema = "none"
  \/ a.extractOnly /\ a.maintainFormat

\* C13: a bundle that combines hybrid extraction with direct image extraction
\* or extractOnly, asks for hybrid extraction or extractOnly without a schema,
\* or combines extractOnly with maintainFormat is rejected without any work;
\* so a run that does work never has hybrid and direct-image extraction both
\* active, never lacks the schema those modes need, and never performs OCR
\* (sequential or not) in extract-only mode.
C13_ConflictingModesRejected ==
  /\ ConflictingModes(args) =>
       /\ pc \in {"validate", "rejected"}
       /\ output = NoOutput
       /\ NoWorkDone
  /\ (~NoWorkDone \/ pc \notin {"validate", "rejected"}) =>
       /\ ~(args.enableHybridExtraction /\ directImageExtraction)
       /\ ~(args.enableHybridExtraction /\ args.extractOnly)
       /\ ~(args.extractOnly /\ args.maintainFormat)
       /\ (args.enableHybridExtraction \/ args.extractOnly) => args.schema # "none"
       /\ args.extractOnly => \A i \in PageIds : ocr[i] = IdleTask

\* C13 witness: hybrid extraction with extractOnly and a schema, credentials
\* and file path present: rejected as a mode conflict.
C13_Witness ==
  /\ Rejected
  /\ args.enableHybridExtraction /\ args.extractOnly /\ ~args.directImageExtraction
  /\ args.schema # "none"
  /\ error = "Hybrid extraction cannot be used in direct image extraction or extract-only mode"
  /\ NoWorkDone

\* The page number the i-th returned page is to have for the bundle a: i for
\* -1; the i-th of the requested numbers that are in range, in ascending order,
\* for an array; the requested number for a scalar.
ExpectedPage(a, i) ==
  LET sel == a.pagesToConvertAsImages
      InRange(page) == page > 0 /\ page <= a.numPages
      kept == SortAsc(SelectSeq(sel.value, InRange))
  IN IF sel.kind = "all" THEN i
     ELSE IF sel.kind = "scalar" THEN sel.value[1]
     ELSE IF i <= Len(kept) THEN kept[i] ELSE Undefined

\* C14: in the resolved result the page at index i has the expected page
\* number (i, the i-th in-range element of the array in ascending order, or
\* the scalar), and no page number is undefined.
C14_PageNumbers ==
  Resolved =>
     \A i \in 1 .. Len(output.pages) :
        /\ output.pages[i].page = ExpectedPage(args, i)
        /\ output.pages[i].page # Undefined

\* The {page, value} entries the per-page property is to have: one for each of
\* the n pages on which the model found a value, in ascending page order.
ExpectedEntries(a, n) ==
  LET all == [t \in 1 .. n |-> Wrapped(t, ItemText[t])]
      Found(e) == a.answers.perPage[e.page] = "value"
  IN SelectSeq(all, Found)

\* C15: in the extracted object of a resolved result, the per-page property
\* is the list of {page, value} entries of the pages that gave a value, in
\* ascending page order; every property the full-document extraction returned
\* is that bare value, replacing any entry the key had.
C15_MergedExtraction ==
  (Resolved /\ args.schema # "none") =>
     LET object == output.extracted.value
         entries == ExpectedEntries(args, NumPerPageInputs)
     IN /\ ~output.extracted.isNull
        /\ (HasPerPageSchema(args)
              /\ ~(HasFullDocSchema(args) /\ args.answers.extra # "none")) =>
             object[PerPageKey] = IF entries = << >> THEN Absent ELSE Array(entries)
        /\ HasFullDocSchema(args) =>
             \A key \in Keys :
                FullDocAnswer[key] # Absent => object[key] = FullDocAnswer[key]

\* Lines 488-526 have been executed: the extraction inputs were built, or
\* building them threw.
InputsBuilt ==
  /\ args.schema # "none"
  /\ \/ pc = "awaitExtract"
     \/ extracted # NullExtracted
     \/ error \in {"ExtractionError", "TypeError"}

\* The per-page extraction tasks that were created.
PerPageTasks == {t \in 1 .. MaxPages : ext[t].pc # "idle"}

\* The pages extraction is to work on: the images with directImageExtraction
\* on a non-structured source, the pages of text otherwise.
NumExtractionPages ==
  IF directImageExtraction /\ ~args.structured THEN Len(imagePaths) ELSE Len(pages)

\* C16: the extraction input by mode: by default the page's content per page
\* and all contents joined by the separator for the full document; with
\* directImageExtraction on a non-structured source [imagePath] per page and
\* all imagePaths; with enableHybridExtraction {imagePaths: [imagePath], text:
\* the page's content} per page and {imagePaths, text: joined contents}; and
\* exactly one per-page task is created per page.
C16_InputsByMode ==
  InputsBuilt =>
     /\ HasPerPageSchema(args) =>
          /\ PerPageTasks = 1 .. NumExtractionPages
          /\ \A t \in PerPageTasks :
               ext[t].input =
                 IF directImageExtraction /\ ~args.structured
                   THEN [kind |-> "images", imagePaths |-> << imagePaths[t] >>,
                         text |-> << >>]
                 ELSE IF args.enableHybridExtraction
                   THEN [kind |-> "hybrid", imagePaths |-> << imagePaths[t] >>,
                         text |-> pages[t].content]
                 ELSE [kind |-> "text", imagePaths |-> << >>,
                       text |-> pages[t].content]
     /\ HasFullDocSchema(args) =>
          /\ ext[0].pc # "idle"
          /\ ext[0].input =
               IF directImageExtraction /\ ~args.structured
                 THEN [kind |-> "images", imagePaths |-> imagePaths, text |-> << >>]
               ELSE IF args.enableHybridExtraction
                 THEN [kind |-> "hybrid", imagePaths |-> imagePaths,
                       text |-> Join(pages, 1)]
               ELSE [kind |-> "text", imagePaths |-> << >>, text |-> Join(pages, 1)]

\* C17: for a structured data file nothing is rasterized, no image is cleaned
\* and no OCR call is made; with a schema, extraction still runs over the
\* texts of the sheets, with one per-page task per sheet when there is a
\* per-page schema, whatever the (valid) extraction mode flags are.
C17_StructuredStillExtracts ==
  args.structured =>
     /\ imagePaths = << >> /\ conversions = << >>
     /\ \A i \in PageIds : ocr[i].pc = "idle"
     /\ numSuccessfulOCRRequests = 0 /\ numFailedOCRRequests = 0
     /\ InputsBuilt =>
          /\ error # "TypeError"
          /\ HasPerPageSchema(args) =>
               /\ PerPageTasks = 1 .. args.numPages
               /\ \A t \in PerPageTasks : ext[t].input.text = SheetPage(t).content
          /\ HasFullDocSchema(args) =>
               /\ ext[0].pc # "idle"
               /\ ext[0].input.text = Join(pages, 1)

\* No OCR task has started and no OCR request was counted.
NoOcrCall ==
  /\ \A i \in PageIds : ocr[i].pc = "idle"
  /\ numSuccessfulOCRRequests = 0 /\ numFailedOCRRequests = 0

\* The extraction inputs are the ones directImageExtraction gives on a
\* non-structured source: [imagePath] per image, all imagePaths for the
\* document.
InputsFromImages ==
  /\ HasPerPageSchema(args) =>
       /\ PerPageTasks = 1 .. Len(imagePaths)
       /\ \A t \in PerPageTasks : ext[t].input = ImagesInput(<< imagePaths[t] >>)
  /\ HasFullDocSchema(args) =>
       /\ ext[0].pc # "idle"
       /\ ext[0].input = ImagesInput(imagePaths)

C19_PageInvariant ==
  (Resolved /\ OcrRun) =>
     \A i \in 1 .. Len(output.pages) :
        LET page == output.pages[i]
        IN /\ page # Hole
           /\ page.status \in {SUCCESS, ERROR}
           /\ page.status = SUCCESS => ~page.hasError
           /\ page.status = ERROR =>
                /\ page.content = << >> /\ page.contentLength = 0
                /\ page.hasError /\ Len(page.error) > 0

C19_Witness ==
  /\ Resolved /\ OcrRun /\ Len(output.pages) = 2
  /\ output.pages[1].status = ERROR /\ output.pages[1].hasError
  /\ output.pages[2].status = SUCCESS /\ ~output.pages[2].hasError

\* The conversions the dispatch is to make for a non-structured input.
Route(a) ==
  IF a.extension \in {".png", ".jpg", ".jpeg"} THEN << >>
  ELSE IF a.extension = ".heic" THEN << "convertHeicToJpeg" >>
  ELSE IF a.extension = ".pdf" /\ ~a.isCFBFile THEN << "convertPdfToImages" >>
  ELSE << "convertFileToPdf", "convertPdfToImages" >>

IsPrefix(s, t) == Len(s) <= Len(t) /\ \A i \in 1 .. Len(s) : s[i] = t[i]

\* C20: the rasterizer dispatch: a .png, .jpg or .jpeg input is the single
\* image, the file itself, with no conversion; a .heic input is the single
\* converted JPEG; a .pdf that is not a compound-binary file is rasterized
\* directly; every other non-structured input, a .pdf with the compound-binary
\* magic bytes included, is converted to PDF and then rasterized.
C20_RasterizerDispatch ==
  ~args.structured =>
     /\ IsPrefix(conversions, Route(args))
     /\ pc = "compress" =>
          /\ conversions = Route(args)
          /\ args.extension \in {".png", ".jpg", ".jpeg"} =>
               imagePaths = << [n |-> 1, compressed |-> FALSE, origin |-> "localPath"] >>
          /\ args.extension = ".heic" =>
               imagePaths = << [n |-> 1, compressed |-> FALSE,
                                origin |-> "convertHeicToJpeg"] >>
          /\ args.extension \notin {".png", ".jpg", ".jpeg", ".heic"} =>
               \A i \in 1 .. Len(imagePaths) :
                  imagePaths[i].origin = "convertPdfToImages"

C20_Witness ==
  /\ pc = "compress" /\ args.extension = ".pdf" /\ args.isCFBFile
  /\ conversions = << "convertFileToPdf", "convertPdfToImages" >>
  /\ Len(imagePaths) = 2

\* The system prompt a request is to carry: the caller's prompt when one is
\* given, else the default of its mode.
ExpectedSystemPrompt(prompt, mode) ==
  IF prompt # "" THEN prompt
  ELSE IF mode = OCR THEN DEFAULT_SYSTEM_PROMPT
  ELSE EXTRACT_SCHEMA_DATA

\* C21: every OCR request an adapter sends carries a non-empty system prompt,
\* the caller's prompt or the built-in convert-to-markdown instruction,
\* whether or not fetchSystemPrompt has run; every EXTRACTION request carries
\* the caller's prompt or "Extract schema data".
C21_SystemPrompt ==
  adapter.request.mode # "none" =>
     /\ Len(adapter.request.system) = 1
     /\ adapter.request.system[1] # ""
     /\ adapter.request.system[1]
          = ExpectedSystemPrompt(adapter.config.prompt, adapter.request.mode)

\* The OpenAI models that take max_completion_tokens: the identifiers that
\* begin with o, o3, o4 or gpt-5.
TakesCompletionTokens(model) ==
  \/ StartsWith(model, << "o" >>)
  \/ StartsWith(model, << "o", "3" >>)
  \/ StartsWith(model, << "o", "4" >>)
  \/ StartsWith(model, << "g", "p", "t", "-", "5" >>)

\* C22: a request of the OpenAI adapter for a model whose identifier begins
\* with o, o3, o4 or gpt-5, with maxTokens in llmParams, carries
\* max_completion_tokens with that value and no max_tokens, in OCR and in
\* EXTRACTION mode; for every other model max_tokens is sent unchanged.
C22_MaxCompletionTokens ==
  (adapter.config.provider = "openai" /\ adapter.request.mode # "none") =>
     LET c == adapter.config
         request == adapter.request
     IN IF TakesCompletionTokens(c.model) /\ c.hasMaxTokens
          THEN /\ request.max_completion_tokens = Some(c.maxTokens)
               /\ request.max_tokens = None
          ELSE /\ request.max_tokens
                    = (IF c.hasMaxTokens THEN Some(c.maxTokens) ELSE None)
               /\ request.max_completion_tokens = None

\* A request of a Google adapter has been sent.
GoogleRequest == adapter.config.provider = "google" /\ adapter.request.mode # "none"

\* C23: on a non-Vertex deployment the request config of GoogleModel carries
\* thinkingConfig.thinkingLevel, and mediaResolution, mapped to the provider
\* constant, exactly when the model identifier starts with "gemini-3-" and
\* the gemini3 option is set, for OCR and EXTRACTION requests alike; for any
\* other model it carries neither.
C23_Gemini3Overrides ==
  (GoogleRequest /\ ~adapter.config.vertex) =>
     LET c == adapter.config
         request == adapter.request
         gemini3 == StartsWith(c.model, << "g", "e", "m", "i", "n", "i", "-", "3", "-" >>)
     IN /\ request.thinkingLevel =
             (IF gemini3 /\ c.thinkingLevel = "low" THEN "THINKING_LEVEL_LOW"
              ELSE IF gemini3 /\ c.thinkingLevel = "high" THEN "THINKING_LEVEL_HIGH"
              ELSE "")
        /\ request.mediaResolution =
             (IF gemini3 /\ c.mediaResolution = "low" THEN "MEDIA_RESOLUTION_LOW"
              ELSE IF gemini3 /\ c.mediaResolution = "medium"
                THEN "MEDIA_RESOLUTION_MEDIUM"
              ELSE IF gemini3 /\ c.mediaResolution = "high"
                THEN "MEDIA_RESOLUTION_HIGH"
              ELSE "")

C23_Witness ==
  /\ GoogleRequest /\ ~adapter.config.vertex
  /\ adapter.config.model = Gemini3Pro /\ adapter.request.mode = EXTRACTION
  /\ adapter.config.thinkingLevel = "high"
  /\ adapter.request.thinkingLevel = "THINKING_LEVEL_HIGH"
  /\ adapter.request.mediaResolution = "MEDIA_RESOLUTION_MEDIUM"

\* C24: on a Vertex deployment no request carries thinkingConfig.thinkingLevel
\* even when gemini3.thinkingLevel is set, mediaResolution is still mapped,
\* and over the calls made on one instance the unsupported-thinkingLevel
\* warning is logged at most once, and exactly once when a call with the
\* option set has built its request.
C24_VertexThinkingLevel ==
  (adapter.config.provider = "google" /\ adapter.config.vertex) =>
     /\ adapter.request.thinkingLevel = ""
     /\ adapter.warnings <= 1
     /\ GoogleRequest =>
          LET c == adapter.config
              gemini3 == StartsWith(c.model, << "g", "e", "m", "i", "n", "i", "-", "3", "-" >>)
          IN /\ adapter.request.mediaResolution =
                  (IF gemini3 /\ c.mediaResolution # ""
                     THEN GEMINI_3_MEDIA_RESOLUTION_MAP[c.mediaResolution] ELSE "")
             /\ adapter.warnings =
                  (IF gemini3 /\ c.thinkingLevel # "" THEN 1 ELSE 0)
     /\ ~GoogleRequest => adapter.warnings = 0

C24_Witness ==
  /\ GoogleRequest /\ adapter.config.vertex /\ adapter.config.model = Gemini3Pro
  /\ adapter.config.thinkingLevel = "low" /\ adapter.calls = 2
  /\ adapter.pc = "idle" /\ adapter.sent = 1 /\ adapter.warnings = 1
  /\ adapter.request.mediaResolution = "MEDIA_RESOLUTION_HIGH"

\* C25: no per-page OCR task uses a released resource: a task completes its
\* read of the image file only while the temp directory exists, and hands its
\* image to the scheduler (cleanupImage with correctOrientation) only while
\* the scheduler has not been terminated.
C25_NoUseAfterRelease ==
  [][ \A i \in PageIds :
        /\ (ocr[i].pc = "read" /\ ocr'[i].pc # "read") => tempDirectory \in dirs
        /\ (ocr[i].pc = "clean" /\ ocr'[i].pc # "clean" /\ args.correctOrientation)
             => scheduler # "terminated" ]_vars


\* C26: with maintainFormat=false at no time are more than `concurrency`
\* per-page OCR tasks in flight, and under errorMode=IGNORE every page's task,
\* once the tasks are handed to the limiter, is eventually started and
\* completed (its promise settles).
TasksDispatched == pc = "awaitOCR" /\ ~args.maintainFormat /\ args.errorMode = IGNORE
AllTasksSettled == \A i \in 1 .. NumImages : ocr[i].pc \in {"done", "rejected"}

C26_LimiterBound ==
  ~args.maintainFormat => Cardinality(InFlight(ocr)) <= args.concurrency

C26_Limiter ==
  /\ [] C26_LimiterBound
  /\ TasksDispatched ~> AllTasksSettled

C26_Witness ==
  /\ args.errorMode = IGNORE /\ ~args.maintainFormat
  /\ args.concurrency = 1 /\ NumImages = 2
  /\ ocr[1].pc = "done" /\ ocr[2].pc = "done"
  /\ pc = "resolved"


\* C27: for each OCR page and each extraction task the model operation is
\* invoked at most maxRetries + 1 times and never again once the task has
\* settled (the first success settles it); a retry is a step of the retry
\* runner only: one getCompletion call sends one provider request at most
\* (exactly one when it resolves) and a provider failure rejects the call
\* without a second request.
Invocations(task) == task.attempt + 1

AttemptsWithinBudget ==
  /\ \A i \in PageIds :
       ocr[i].pc = "call" => Invocations(ocr[i]) <= args.maxRetries + 1
  /\ \A t \in 0 .. MaxPages :
       ext[t].pc = "call" => Invocations(ext[t]) <= args.maxRetries + 1

OneRequestPerCall ==
  /\ adapter.sent <= 1
  /\ adapter.pc = "request" => adapter.sent = 1
  /\ adapter.outcome = "resolved" => adapter.sent = 1

NoCallAfterSettle ==
  /\ \A i \in PageIds :
       /\ ocr[i].pc \in {"done", "rejected"} => ocr'[i].pc = ocr[i].pc
       /\ (ocr[i].pc = "call" /\ ocr'[i].pc = "call")
            => ocr'[i].attempt \in {ocr[i].attempt, ocr[i].attempt + 1}
  /\ \A t \in 0 .. MaxPages :
       /\ ext[t].pc \notin {"idle", "call"} => ext'[t].pc = ext[t].pc
       /\ (ext[t].pc = "call" /\ ext'[t].pc = "call")
            => ext'[t].attempt \in {ext[t].attempt, ext[t].attempt + 1}

RethrowsWithoutRetry ==
  (adapter.pc = "request" /\ adapter'.pc # "request")
    => /\ adapter'.pc = "idle"
       /\ adapter'.sent = adapter.sent
       /\ adapter'.outcome \in {"resolved", "rejected"}

C27_RetryRunnerOnly ==
  /\ [] (AttemptsWithinBudget /\ OneRequestPerCall)
  /\ [][NoCallAfterSettle /\ RethrowsWithoutRetry]_vars

C27_Witness ==
  /\ args.maxRetries = 1
  /\ ocr[1].pc = "call" /\ ocr[1].attempt = 1
  /\ adapter.outcome = "rejected" /\ adapter.sent = 1


\* C28: in the OCR stage only the model call runs under the retry runner and
\* inside the errorMode handler.  The image read and cleanupImage are each
\* executed once per page and never again: a task leaves either step for the
\* next one or by rejecting, and a rejection there makes zerox reject
\* whatever errorMode is, with no ERROR page stored and no failure counted.
RejectsTheRun(i) ==
  /\ ocr'[i].pc = "rejected"
  /\ ocr'[i].error \in {"ReadError", "CleanupError"}
  /\ pending' = "throw"
  /\ pages' = pages
  /\ numFailedOCRRequests' = numFailedOCRRequests

C28_ReadAndCleanOutsideRetry ==
  [][ \A i \in PageIds :
        /\ (ocr[i].pc = "read" /\ ocr'[i].pc # "read")
             => (ocr'[i].pc = "clean" \/ RejectsTheRun(i))
        /\ (ocr[i].pc = "clean" /\ ocr'[i].pc # "clean")
             => (ocr'[i].pc = "call" \/ RejectsTheRun(i))
        /\ ocr[i].pc \in {"call", "done", "rejected"}
             => ocr'[i].pc \notin {"read", "clean"} ]_vars

C28_Witness ==
  /\ args.errorMode = IGNORE
  /\ Rejected /\ error = "CleanupError"
  /\ \E i \in PageIds : ocr[i].pc = "rejected" /\ ocr[i].error = "CleanupError"
  /\ \A i \in 1 .. Len(pages) : pages[i] = Hole \/ pages[i].status # ERROR


\* C29: page identifiers are consistent: in a resolved result every per-page
\* extracted entry {page: N, value} and every OCR logprob entry {page: N}
\* carries the `page` field of the returned Page it was derived from, also
\* when pagesToConvertAsImages selects a subset of the pages.  The logprob
\* entry of the page at index i carries the pageNumber processOCR was called
\* with (pages[i].page before the renumbering); the entry of extraction task t
\* is derived from the page at index t.
PerPageEntries ==
  LET v == output.extracted.value[PerPageKey]
  IN IF v.kind = "array" THEN {v.items[k] : k \in 1 .. Len(v.items)} ELSE {}

C29_PageIdentifiers ==
  (Resolved /\ HasPerPageSchema(args) /\ ~output.extracted.isNull) =>
     /\ \A i \in 1 .. Len(output.pages) :
          pages[i] # Hole => pages[i].page = output.pages[i].page
     /\ \A e \in PerPageEntries :
          e.wrapped =>
             /\ e.page \in 1 .. Len(output.pages)
             /\ output.pages[e.page].page = e.page


\* C30: in every returned result with a schema, summary.extracted.failed is 0
\* and summary.extracted.successful is the number of extraction tasks that
\* were dispatched: one per per-page input when there is a per-page schema,
\* plus one when there is a full-document schema.
ExtractionTasksDispatched ==
  (IF HasPerPageSchema(args) THEN NumPerPageInputs ELSE 0)
    + (IF HasFullDocSchema(args) THEN 1 ELSE 0)

C30_NoFailedExtraction ==
  (Resolved /\ args.schema # "none") =>
     /\ output.summary.extracted.present
     /\ output.summary.extracted.failed = 0
     /\ output.summary.extracted.successful = ExtractionTasksDispatched
     /\ ExtractionTasksDispatched = Cardinality({t \in 0 .. MaxPages : ext[t].pc # "idle"})

C30_Witness ==
  /\ Resolved /\ args.schema = "both" /\ args.maxRetries = 1
  /\ args.errorMode = IGNORE
  /\ output.summary.extracted.successful = 3

====
